---- MODULE Spec2Model ----
(***************************************************************************)
(* Command execution pipeline of codex-rs: the command registry            *)
(* (commands/registry.rs), the user command loader (commands/user/         *)
(* loader.rs), the command file parser (commands/parser.rs), the debounced  *)
(* command watcher (commands/watcher.rs), the invocation parser            *)
(* (commands/invocation.rs), the argument mapper (commands/args.rs), the   *)
(* agent router (agents/router.rs), the agent command executor             *)
(* (commands/agents/executor.rs), the agent toolkit with its permissions   *)
(* (agents/toolkit.rs, agents/permissions.rs), the command executor        *)
(* (commands/executor.rs), the activation score (agents/mod.rs), the       *)
(* slash command integration (commands/integration.rs) and the command     *)
(* palette of the TUI (tui/src/command_palette.rs).                        *)
(***************************************************************************)
EXTENDS Integers, Sequences, FiniteSets, TLC

VARIABLES
    dir,          \* the commands directory: path -> file state
    fsBudget,     \* file system operations the environment may still perform
    commands,     \* CommandRegistry.commands: name -> command
    lockWriter,   \* the task holding the RwLock's write guard, or NoProc
    lockReaders,  \* the tasks holding a read guard
    committed,    \* history: the map as the last completed write left it
    rl,           \* per reload() call in flight: its position and locals
    rd,           \* per reading task: its position, operation and result
    alive,        \* the CommandWatcher handle exists (not yet dropped)
    eventQ,       \* the unbounded event channel event_tx -> event_rx
    pending,      \* pending_reloads: path -> age of its stamp, or NoAge
    lag,          \* time since the interval's next tick became due (< 0: not yet due)
    wpc,          \* the background task: "none", "select", "reloading", "done"
    hist,         \* history of the watcher's run (reload counts, event ages)
    input,        \* the string handed to InvocationParser::parse
    invocation,   \* what InvocationParser::parse returned, or NotParsed
    mapped,       \* the schema given to and the result of map_arguments, or NotMapped
    routers,      \* the AgentRouter instances: agents, iteration order, threshold
    selection,    \* per router, what select_agent and suggest_agents returned last
    execution,    \* what execute_agent_command did last, or NotExecuted
    toolkit,      \* the AgentToolkit: its permissions
    world,        \* what the toolkit did outside itself: files read and written, processes spawned
    toolResult,   \* what the last toolkit call returned, or NoToolCall
    executed,     \* CommandExecutor::execute: not called, holding the command it looked up, or what it did
    activation,   \* the value given to ActivationScore::new and the score built from it
    palette,      \* the CommandPalette: visible, filter, selected, commands, filtered
    keyResult,    \* the key handle_key was last called with and the action it returned
    slash         \* the input items, what detect_slash_command found and what replaced them

vars == <<dir, fsBudget, commands, lockWriter, lockReaders, committed, rl, rd,
          alive, eventQ, pending, lag, wpc, hist,
          input, invocation, mapped, routers, selection, execution,
          toolkit, world, toolResult, executed, activation,
          palette, keyResult, slash>>

regVars == <<commands, lockWriter, lockReaders, committed, rl, rd>>
watchVars == <<alive, eventQ, pending, lag, wpc, hist>>
fsVars == <<dir, fsBudget>>
invVars == <<input, invocation, mapped>>
agentVars == <<routers, selection, execution>>
extVars == <<toolkit, world, toolResult, executed, activation, palette, keyResult, slash>>

----------------------------------------------------------------------------
(* Bounds of the model *)

MaxFsOps == 2
MaxQueue == 2
ReloadCap == 2
MaxTokens == 2
MaxRaw == 2
MaxTopK == 2
MaxScore == 60
MaxFilter == 2
MaxMatchScore == 2
MaxItems == 3

----------------------------------------------------------------------------
(* Paths and command files *)

MdA == [stem |-> "a", ext |-> "md"]
MdB == [stem |-> "b", ext |-> "md"]
Txt == [stem |-> "r", ext |-> "txt"]

Paths == {MdA, MdB, Txt}

\* Path::extension
Extension(path) == path.ext

is_command_file_AnyExtension(path) == Extension(path) # ""

\* CommandWatcher::is_command_file
is_command_file(path) == Extension(path) = "md"

Absent == [kind |-> "absent"]
Directory == [kind |-> "dir"]

\* A regular file: whether it can be read, its frontmatter fences, whether the
\* frontmatter deserializes, and the metadata fields it declares.
File(readable, open, close, yaml, name, description, category, args) ==
    [kind |-> "file", readable |-> readable, open |-> open, close |-> close,
     yaml |-> yaml, name |-> name, description |-> description,
     category |-> category, args |-> args]

Arg(name, required, hasDefault) ==
    [name |-> name, required |-> required, hasDefault |-> hasDefault]

CmdFile(name, description) ==
    File(TRUE, TRUE, TRUE, TRUE, name, description, "test", <<>>)

GoodFiles ==
    { CmdFile(<<"a">>, "d1"), CmdFile(<<"a">>, "d2"), CmdFile(<<"b">>, "d1") }

\* Files load_command rejects: unreadable, no closing fence, a name with an
\* invalid character, an argument both required and defaulted, an empty
\* name, an empty description, an empty category
BadFiles ==
    { File(FALSE, TRUE, TRUE, TRUE, <<"c">>, "d1", "test", <<>>),
      File(TRUE, TRUE, FALSE, TRUE, <<"c">>, "d1", "test", <<>>),
      File(TRUE, TRUE, TRUE, TRUE, <<"c", "!">>, "d1", "test", <<>>),
      File(TRUE, TRUE, TRUE, TRUE, <<"c">>, "d1", "test",
           <<Arg("x", TRUE, TRUE)>>),
      File(TRUE, TRUE, TRUE, TRUE, <<>>, "d1", "test", <<>>),
      File(TRUE, TRUE, TRUE, TRUE, <<"c">>, "", "test", <<>>),
      File(TRUE, TRUE, TRUE, TRUE, <<"c">>, "d1", "", <<>>) }

\* A file that is no command at all (readme.txt: "Not a command")
NoteFile == File(TRUE, FALSE, FALSE, FALSE, <<>>, "", "", <<>>)

Alphanumeric == {"a", "b", "c", "x", "0", "9", "U+00E9"}

validate_metadata_NameOnly(m) ==
    IF m.name = <<>> THEN "Command name cannot be empty"
    ELSE IF \E i \in 1..Len(m.name) :
                ~(m.name[i] \in Alphanumeric \/ m.name[i] = "-" \/ m.name[i] = "_")
         THEN "contains invalid characters"
    ELSE ""

\* CommandParser::validate_metadata: "" when valid, else the failure
validate_metadata(m) ==
    IF m.name = <<>> THEN "Command name cannot be empty"
    ELSE IF \E i \in 1..Len(m.name) :
                ~(m.name[i] \in Alphanumeric \/ m.name[i] = "-" \/ m.name[i] = "_")
         THEN "contains invalid characters"
    ELSE IF m.description = "" THEN "Command description cannot be empty"
    ELSE IF m.category = "" THEN "Command category cannot be empty"
    ELSE IF \E i \in 1..Len(m.args) : m.args[i].name = ""
         THEN "Argument name cannot be empty"
    ELSE IF \E i \in 1..Len(m.args) : m.args[i].required /\ m.args[i].hasDefault
         THEN "cannot be both required and have a default value"
    ELSE ""

\* CommandParser::split_frontmatter
split_frontmatter(content) ==
    IF ~content.open THEN "Missing frontmatter delimiter"
    ELSE IF ~content.close THEN "No closing frontmatter delimiter"
    ELSE ""

\* CommandParser::parse
parse(content) ==
    IF split_frontmatter(content) # "" THEN split_frontmatter(content)
    ELSE IF ~content.yaml THEN "Failed to parse YAML frontmatter"
    ELSE validate_metadata(content)

\* UserCommand built by load_command from the parsed file
UserCommand(content) ==
    [name |-> content.name, description |-> content.description,
     category |-> content.category, args |-> content.args]

\* UserCommandLoader::load_command: "" when Ok
load_command(content) ==
    IF ~content.readable THEN "Failed to read file" ELSE parse(content)

\* CommandCategory::from_str
CategoryFromStr(s) ==
    CASE s = "analysis" -> "Analysis"
      [] s = "refactoring" -> "Refactoring"
      [] s = "testing" -> "Testing"
      [] s = "documentation" -> "Documentation"
      [] OTHER -> "Custom"

----------------------------------------------------------------------------
(* The registry map *)

\* No task holds the write guard of the RwLock around the map
NoProc == "none"

EmptyMap == << >>

MapInsert_Replace(map, cmd) == [n \in {cmd.name} |-> cmd]

\* HashMap::insert
MapInsert(map, cmd) ==
    [n \in DOMAIN map \cup {cmd.name} |-> IF n = cmd.name THEN cmd ELSE map[n]]

CommandInfo(cmd) ==
    [name |-> cmd.name, description |-> cmd.description,
     category |-> CategoryFromStr(cmd.category)]

\* What get / list / filter_by_category compute from the map they read
ReadResult(op, map) ==
    CASE op.kind = "get" ->
           IF op.arg \in DOMAIN map THEN {map[op.arg]} ELSE {}
      [] op.kind = "list" -> { CommandInfo(map[n]) : n \in DOMAIN map }
      [] OTHER ->
           { CommandInfo(map[n]) :
               n \in { k \in DOMAIN map : CategoryFromStr(map[k].category) = op.arg[1] } }

----------------------------------------------------------------------------
(* InvocationParser (commands/invocation.rs): strings are sequences of     *)
(* characters, a character is a one-character string ("U+00E9" is the      *)
(* letter e with acute accent, alphanumeric but not ASCII)                 *)

\* char::is_whitespace
is_whitespace(ch) == ch = " "

\* The characters invocations are built from
Chars == Alphanumeric \cup {" ", "/", "=", "\"", "\\", "-", "_", "!"}

RECURSIVE trim_start(_)
trim_start(s) ==
    IF s # <<>> /\ is_whitespace(Head(s)) THEN trim_start(Tail(s)) ELSE s

RECURSIVE trim_end(_)
trim_end(s) ==
    IF s # <<>> /\ is_whitespace(s[Len(s)])
    THEN trim_end(SubSeq(s, 1, Len(s) - 1)) ELSE s

\* str::trim
trim(s) == trim_end(trim_start(s))

\* The locals of tokenize before its loop
TokenizeStart ==
    [tokens |-> <<>>, current_token |-> <<>>, in_quotes |-> FALSE,
     escape_next |-> FALSE]

\* One iteration of tokenize's while loop on character ch
tokenize_char(st, ch) ==
    IF st.escape_next
    THEN [st EXCEPT !.current_token = Append(@, ch), !.escape_next = FALSE]
    ELSE IF ch = "\\" THEN [st EXCEPT !.escape_next = TRUE]
    ELSE IF ch = "\"" THEN [st EXCEPT !.in_quotes = ~@]
    ELSE IF is_whitespace(ch) /\ ~st.in_quotes
         THEN IF st.current_token # <<>>
              THEN [st EXCEPT !.tokens = Append(@, st.current_token),
                              !.current_token = <<>>]
              ELSE st
    ELSE [st EXCEPT !.current_token = Append(@, ch)]

RECURSIVE tokenize_loop(_, _, _)
tokenize_loop(chars, i, st) ==
    IF i > Len(chars) THEN st
    ELSE tokenize_loop(chars, i + 1, tokenize_char(st, chars[i]))

\* InvocationParser::tokenize: err is "" when Ok
tokenize(chars) ==
    LET st == tokenize_loop(chars, 1, TokenizeStart)
    IN  IF st.in_quotes
        THEN [err |-> "Unclosed quotes in command", tokens |-> <<>>]
        ELSE IF st.escape_next
        THEN [err |-> "Trailing escape character", tokens |-> <<>>]
        ELSE [err |-> "",
              tokens |-> IF st.current_token # <<>>
                         THEN Append(st.tokens, st.current_token)
                         ELSE st.tokens]

\* InvocationParser::is_valid_command_name
is_valid_command_name(name) ==
    /\ name # <<>>
    /\ \A i \in 1..Len(name) :
          name[i] \in Alphanumeric \/ name[i] = "-" \/ name[i] = "_"

\* InvocationParser::is_valid_arg_name
is_valid_arg_name(name) ==
    /\ name # <<>>
    /\ \A i \in 1..Len(name) :
          name[i] \in Alphanumeric \/ name[i] = "-" \/ name[i] = "_"

\* str::find: the first position of ch in s, 0 when there is none
find(s, ch) ==
    IF \E i \in 1..Len(s) : s[i] = ch
    THEN CHOOSE i \in 1..Len(s) : s[i] = ch /\ \A j \in 1..(i - 1) : s[j] # ch
    ELSE 0

\* Option::None and Option::Some
None == [some |-> FALSE]
Some(v) == [some |-> TRUE, val |-> v]

\* InvocationParser::parse_key_value
parse_key_value(token) ==
    LET eq_pos == find(token, "=")
        key == trim(SubSeq(token, 1, eq_pos - 1))
        value == trim(SubSeq(token, eq_pos + 1, Len(token)))
    IN  IF eq_pos # 0 /\ key # <<>> /\ is_valid_arg_name(key)
        THEN Some([key |-> key, value |-> value])
        ELSE None

\* HashMap::insert(key, value)
Insert(map, key, value) ==
    [k \in DOMAIN map \cup {key} |-> IF k = key THEN value ELSE map[k]]

\* The argument loop of parse over tokens[i..]
RECURSIVE parse_tokens(_, _, _, _)
parse_tokens(tokens, i, args, raw_args) ==
    IF i > Len(tokens) THEN [args |-> args, raw_args |-> raw_args]
    ELSE LET kv == parse_key_value(tokens[i])
         IN  IF kv.some
             THEN parse_tokens(tokens, i + 1,
                               Insert(args, kv.val.key, kv.val.value), raw_args)
             ELSE parse_tokens(tokens, i + 1, args, Append(raw_args, tokens[i]))

\* A failed parse
ParseError(msg) ==
    [err |-> msg, command_name |-> <<>>, args |-> EmptyMap, raw_args |-> <<>>]

\* CommandInvocation
CommandInvocation(command_name, args, raw_args) ==
    [err |-> "", command_name |-> command_name, args |-> args,
     raw_args |-> raw_args]

\* InvocationParser::parse: err is "" when Ok
parse_invocation(inp) ==
    LET trimmed == trim(inp)
    IN  IF trimmed = <<>> \/ Head(trimmed) # "/"
        THEN ParseError("Command must start with '/'")
        ELSE IF Len(trimmed) = 1 THEN ParseError("Command name cannot be empty")
        ELSE LET t == tokenize(Tail(trimmed))
             IN  IF t.err # "" THEN ParseError(t.err)
                 ELSE IF t.tokens = <<>>
                 THEN ParseError("Command name cannot be empty")
                 ELSE IF ~is_valid_command_name(t.tokens[1])
                 THEN ParseError("Invalid command name")
                 ELSE LET a == parse_tokens(t.tokens, 2, EmptyMap, <<>>)
                      IN  CommandInvocation(t.tokens[1], a.args, a.raw_args)

----------------------------------------------------------------------------
(* ArgumentMapper (commands/args.rs) *)

\* ArgDefinition: default is None or Some(value)
ArgDefinition(name, required, default) ==
    [name |-> name, required |-> required, default |-> default]

\* CommandMetadata, with the fields the mapper and the agent executor read
CommandMetadata(name, args, agent_id) ==
    [name |-> name, args |-> args, agent_id |-> agent_id]

\* What map_arguments returns: err is "" when Ok(result)
MapResult(err, arg, command, result) ==
    [err |-> err, arg |-> arg, command |-> command, result |-> result]

RECURSIVE map_positional_KeepExtra(_, _, _, _)
map_positional_KeepExtra(raw_args, defs, i, result) ==
    IF i > Len(raw_args) THEN result
    ELSE map_positional_KeepExtra(raw_args, defs, i + 1,
                                  Insert(result,
                                         IF i <= Len(defs) THEN defs[i].name ELSE <<"_">>,
                                         raw_args[i]))

\* Step 1: positional arguments to the first N declared arguments
RECURSIVE map_positional(_, _, _, _)
map_positional(raw_args, defs, i, result) ==
    IF i > Len(raw_args) THEN result
    ELSE IF i <= Len(defs)
    THEN map_positional(raw_args, defs, i + 1,
                        Insert(result, defs[i].name, raw_args[i]))
    ELSE map_positional(raw_args, defs, i + 1, result)

\* Step 2: named arguments, iterated in the map's order keys; unknown is the
\* key of the bail!, <<>> when there is none
RECURSIVE map_named(_, _, _, _, _)
map_named(args, keys, defs, i, result) ==
    IF i > Len(keys) THEN [unknown |-> <<>>, result |-> result]
    ELSE IF ~\E j \in 1..Len(defs) : defs[j].name = keys[i]
    THEN [unknown |-> keys[i], result |-> result]
    ELSE map_named(args, keys, defs, i + 1, Insert(result, keys[i], args[keys[i]]))

\* Step 3: defaults for the arguments still missing
RECURSIVE apply_defaults(_, _, _)
apply_defaults(defs, i, result) ==
    IF i > Len(defs) THEN result
    ELSE IF defs[i].name \notin DOMAIN result /\ defs[i].default.some
    THEN apply_defaults(defs, i + 1, Insert(result, defs[i].name, defs[i].default.val))
    ELSE apply_defaults(defs, i + 1, result)

\* Step 4: the first required argument that is absent, 0 when there is none
missing_required(defs, result) ==
    LET miss == { i \in 1..Len(defs) :
                    defs[i].required /\ defs[i].name \notin DOMAIN result }
    IN  IF miss = {} THEN 0 ELSE CHOOSE i \in miss : \A j \in miss : i <= j

map_arguments_PositionalLast(inv, metadata, keys) ==
    LET named == map_named(inv.args, keys, metadata.args, 1, EmptyMap)
        positional == map_positional(inv.raw_args, metadata.args, 1, named.result)
        defaulted == apply_defaults(metadata.args, 1, positional)
        miss == missing_required(metadata.args, defaulted)
    IN  IF named.unknown # <<>>
        THEN MapResult("Unknown argument", named.unknown, metadata.name, EmptyMap)
        ELSE IF miss # 0
        THEN MapResult("Required argument missing", metadata.args[miss].name,
                       metadata.name, EmptyMap)
        ELSE MapResult("", <<>>, metadata.name, defaulted)

map_arguments_NoRequiredCheck(inv, metadata, keys) ==
    LET positional == map_positional(inv.raw_args, metadata.args, 1, EmptyMap)
        named == map_named(inv.args, keys, metadata.args, 1, positional)
        defaulted == apply_defaults(metadata.args, 1, named.result)
    IN  IF named.unknown # <<>>
        THEN MapResult("Unknown argument", named.unknown, metadata.name, EmptyMap)
        ELSE MapResult("", <<>>, metadata.name, defaulted)

\* ArgumentMapper::map_arguments; keys is the order in which the loop of
\* step 2 meets the keys of invocation.args (a HashMap)
map_arguments(inv, metadata, keys) ==
    LET positional == map_positional(inv.raw_args, metadata.args, 1, EmptyMap)
        named == map_named(inv.args, keys, metadata.args, 1, positional)
        defaulted == apply_defaults(metadata.args, 1, named.result)
        miss == missing_required(metadata.args, defaulted)
    IN  IF named.unknown # <<>>
        THEN MapResult("Unknown argument", named.unknown, metadata.name, EmptyMap)
        ELSE IF miss # 0
        THEN MapResult("Required argument missing", metadata.args[miss].name,
                       metadata.name, EmptyMap)
        ELSE MapResult("", <<>>, metadata.name, defaulted)

\* The orders in which a HashMap with key set ks may be iterated
IterationOrders(ks) ==
    { o \in [1..Cardinality(ks) -> ks] : \A k \in ks : \E i \in DOMAIN o : o[i] = k }

----------------------------------------------------------------------------
(* Invocations parsed and mapped *)

\* Raw texts of one token: bare, key=value, quoted or escaped '=', a value
\* with quoted whitespace or a further '=', an escaped blank, an open quote,
\* a trailing backslash
TokenTexts ==
    { <<"x">>,
      <<"a", "=", "x">>,
      <<"\"", "a", "=", "x", "\"">>,
      <<"a", "\\", "=", "x">>,
      <<"a", "=", "\"", " ", "x", "\"">>,
      <<"a", "=", "x", "=", "9">>,
      <<"b", "=", "9">>,
      <<"\"", "x", " ", "9", "\"">>,
      <<"x", "\\", " ">>,
      <<"\"", "x">>,
      <<"x", "\\">>,
      <<"\"", "x", "\\">> }

\* Raw texts of the command name
NameTexts == { <<"c">>, <<"U+00E9">>, <<"c", "!">> }

\* The strings of at most n characters
Strings(n) == UNION { [1..k -> Chars] : k \in 0..n }

RECURSIVE JoinTokens(_, _)
JoinTokens(texts, i) ==
    IF i > Len(texts) THEN <<>>
    ELSE <<" ">> \o texts[i] \o JoinTokens(texts, i + 1)

\* The inputs given to parse: a slash, a name and at most MaxTokens tokens,
\* every short string after the slash, and strings without a leading slash
Inputs ==
    { <<"/">> \o name \o JoinTokens(texts, 1) :
        name \in NameTexts,
        texts \in UNION { [1..k -> TokenTexts] : k \in 0..MaxTokens } }
    \cup { <<"/">> \o s : s \in Strings(MaxRaw) }
    \cup { <<>>, <<"c">>, <<" ", "/", "c", " ", "x", " ">> }

\* The parameter schemas commands declare
Schemas ==
    { <<>>,
      <<ArgDefinition(<<"a">>, TRUE, None)>>,
      <<ArgDefinition(<<"a">>, TRUE, None), ArgDefinition(<<"b">>, TRUE, None)>>,
      <<ArgDefinition(<<"a">>, TRUE, None), ArgDefinition(<<"b">>, FALSE, Some(<<"0">>))>>,
      <<ArgDefinition(<<"a">>, FALSE, Some(<<"0">>)), ArgDefinition(<<"b">>, TRUE, None)>>,
      <<ArgDefinition(<<"a">>, TRUE, None), ArgDefinition(<<"a">>, FALSE, Some(<<"0">>))>>,
      <<ArgDefinition(<<"b">>, FALSE, None), ArgDefinition(<<"a">>, FALSE, None)>> }

NotParsed == ParseError("not parsed")

NotMapped ==
    [metadata |-> CommandMetadata(<<>>, <<>>, None),
     result |-> MapResult("not mapped", <<>>, <<>>, EmptyMap)]

\* InvocationParser::parse(input)
Parse ==
    /\ invocation = NotParsed
    /\ invocation' = parse_invocation(input)
    /\ UNCHANGED <<input, mapped>>
    /\ UNCHANGED <<fsVars, regVars, watchVars, agentVars, extVars>>

\* ArgumentMapper::map_arguments(&invocation, &metadata)
MapArguments(metadata, keys) ==
    /\ invocation.err = ""
    /\ mapped = NotMapped
    /\ mapped' = [metadata |-> metadata,
                  result |-> map_arguments(invocation, metadata, keys)]
    /\ UNCHANGED <<input, invocation>>
    /\ UNCHANGED <<fsVars, regVars, watchVars, agentVars, extVars>>

----------------------------------------------------------------------------
(* AgentRouter (agents/router.rs) and AgentCommandExecutor                 *)
(* (commands/agents/executor.rs); scores and thresholds are in tenths      *)

\* AgentRouter::new: activation_threshold 0.6
DEFAULT_THRESHOLD == 6

\* The bounds of an ActivationScore and of the threshold: 0.0 and 1.0
SCORE_MIN == 0
SCORE_MAX == 10

Routers == {1, 2}

\* An Agent: its id() and the score its can_handle gives for the context
Agent(id, score) == [id |-> id, score |-> score]

\* The agents that get registered
Agents == { Agent("a", 8), Agent("b", 8), Agent("b", 5) }

\* The thresholds given to set_activation_threshold
Thresholds == {5, 8, 12}

\* AgentRouter::new; order is the order in which agents.values() iterates,
\* shared that the router was moved into an Arc and is no longer changed
NewRouter ==
    [agents |-> EmptyMap, order |-> <<>>,
     activation_threshold |-> DEFAULT_THRESHOLD, shared |-> FALSE]

\* f64::clamp
clamp(x, lo, hi) == IF x < lo THEN lo ELSE IF x > hi THEN hi ELSE x

\* The (agent, score) pairs collected from agents.values()
collect_scores(router) ==
    [i \in 1..Len(router.order) |->
        [agent_id |-> router.order[i],
         score |-> router.agents[router.order[i]].score]]

\* Insertion of e into a sequence sorted by score descending, behind the
\* elements that compare greater or equal (the sort is stable)
RECURSIVE insert_sorted(_, _)
insert_sorted(sorted, e) ==
    IF sorted = <<>> THEN <<e>>
    ELSE IF Head(sorted).score >= e.score
    THEN <<Head(sorted)>> \o insert_sorted(Tail(sorted), e)
    ELSE <<e>> \o sorted

\* scores.sort_by(|a, b| b.partial_cmp(a)): stable, score descending
RECURSIVE sort_by(_, _)
sort_by(scores, i) ==
    IF i = 0 THEN <<>> ELSE insert_sorted(sort_by(scores, i - 1), scores[i])

select_agent_StrictThreshold(router) ==
    LET scores == sort_by(collect_scores(router), Len(router.order))
    IN  IF scores # <<>> /\ scores[1].score > router.activation_threshold
        THEN Some(scores[1].agent_id)
        ELSE None

\* AgentRouter::select_agent
select_agent(router) ==
    LET scores == sort_by(collect_scores(router), Len(router.order))
    IN  IF scores # <<>> /\ scores[1].score >= router.activation_threshold
        THEN Some(scores[1].agent_id)
        ELSE None

\* AgentRouter::suggest_agents
suggest_agents(router, top_k) ==
    LET scores == sort_by(collect_scores(router), Len(router.order))
    IN  SubSeq(scores, 1, IF top_k < Len(scores) THEN top_k ELSE Len(scores))

\* No call of select_agent or suggest_agents has returned yet
NoSelection ==
    [select |-> [called |-> FALSE, selected |-> None],
     suggest |-> [called |-> FALSE, top_k |-> 0, suggestions |-> <<>>]]

\* execute_agent_command has not run
NotExecuted ==
    [called |-> FALSE, router |-> 0, agent_id |-> None, built |-> FALSE,
     err |-> "", agent |-> None]

\* AgentRouter::register_agent
RegisterAgent(r, agent) ==
    /\ ~routers[r].shared
    /\ \E order \in IterationOrders(DOMAIN routers[r].agents \cup {agent.id}) :
          routers' = [routers EXCEPT
                        ![r].agents = Insert(@, agent.id, agent),
                        ![r].order = order]
    /\ UNCHANGED <<selection, execution>>
    /\ UNCHANGED <<fsVars, regVars, watchVars, invVars, extVars>>

\* AgentRouter::set_activation_threshold
SetActivationThreshold(r, threshold) ==
    /\ ~routers[r].shared
    /\ routers' = [routers EXCEPT
                     ![r].activation_threshold = clamp(threshold, SCORE_MIN, SCORE_MAX)]
    /\ UNCHANGED <<selection, execution>>
    /\ UNCHANGED <<fsVars, regVars, watchVars, invVars, extVars>>

\* Arc::new(router): from here on the router is only read
ShareRouter(r) ==
    /\ ~routers[r].shared
    /\ routers' = [routers EXCEPT ![r].shared = TRUE]
    /\ UNCHANGED <<selection, execution>>
    /\ UNCHANGED <<fsVars, regVars, watchVars, invVars, extVars>>

\* A call of select_agent on router r
SelectAgent(r) ==
    /\ routers[r].shared
    /\ ~selection[r].select.called
    /\ selection' = [selection EXCEPT
                       ![r].select = [called |-> TRUE,
                                      selected |-> select_agent(routers[r])]]
    /\ UNCHANGED <<routers, execution>>
    /\ UNCHANGED <<fsVars, regVars, watchVars, invVars, extVars>>

\* A call of suggest_agents on router r
SuggestAgents(r, top_k) ==
    /\ routers[r].shared
    /\ ~selection[r].suggest.called
    /\ selection' = [selection EXCEPT
                       ![r].suggest = [called |-> TRUE, top_k |-> top_k,
                                       suggestions |-> suggest_agents(routers[r], top_k)]]
    /\ UNCHANGED <<routers, execution>>
    /\ UNCHANGED <<fsVars, regVars, watchVars, invVars, extVars>>

\* The invocations given to execute_agent_command
ExecInputs == { <<"/", "c", " ", "x">>, <<"/", "c">> }

\* The metadata of the agent-backed commands
AgentMetadata ==
    { CommandMetadata(<<"c">>, <<ArgDefinition(<<"a">>, TRUE, None)>>, agent_id) :
        agent_id \in {None, Some("a"), Some("b"), Some("n")} }

execute_agent_command_SelectFirst(r, inv, metadata, keys, rendered, ran) ==
    LET mapping == map_arguments(inv, metadata, keys)
        agent == select_agent(routers[r])
        outcome(built, consulted, err, by) ==
            [called |-> TRUE, router |-> r, invocation |-> inv, metadata |-> metadata,
             agent_id |-> metadata.agent_id, built |-> built, consulted |-> consulted,
             err |-> err, agent |-> by]
    IN  IF ~agent.some
        THEN IF metadata.agent_id.some
             THEN outcome(FALSE, TRUE, "Agent not found or not available", None)
             ELSE outcome(FALSE, TRUE, "No suitable agent found for command", None)
        ELSE IF mapping.err # "" \/ ~rendered
        THEN outcome(FALSE, TRUE, "Failed to build agent task", None)
        ELSE IF ~ran THEN outcome(TRUE, TRUE, "Agent execution failed", agent)
        ELSE outcome(TRUE, TRUE, "", agent)

\* AgentCommandExecutor::execute_agent_command on router r; keys is the
\* iteration order of invocation.args, rendered whether the template
\* renders, ran whether the agent's execute returns Ok.  built is whether
\* build_task returned a task, consulted whether select_agent was called.
execute_agent_command(r, inv, metadata, keys, rendered, ran) ==
    LET mapping == map_arguments(inv, metadata, keys)
        agent == select_agent(routers[r])
        outcome(built, consulted, err, by) ==
            [called |-> TRUE, router |-> r, invocation |-> inv, metadata |-> metadata,
             agent_id |-> metadata.agent_id, built |-> built, consulted |-> consulted,
             err |-> err, agent |-> by]
    IN  IF mapping.err # "" \/ ~rendered
        THEN outcome(FALSE, FALSE, "Failed to build agent task", None)
        ELSE IF ~agent.some
        THEN IF metadata.agent_id.some
             THEN outcome(TRUE, TRUE, "Agent not found or not available", None)
             ELSE outcome(TRUE, TRUE, "No suitable agent found for command", None)
        ELSE IF ~ran THEN outcome(TRUE, TRUE, "Agent execution failed", agent)
        ELSE outcome(TRUE, TRUE, "", agent)

\* A call of execute_agent_command
ExecuteAgentCommand(r, inp, metadata, rendered, ran) ==
    /\ routers[r].shared
    /\ ~execution.called
    /\ parse_invocation(inp).err = ""
    /\ \E keys \in IterationOrders(DOMAIN parse_invocation(inp).args) :
          execution' = execute_agent_command(r, parse_invocation(inp), metadata,
                                             keys, rendered, ran)
    /\ UNCHANGED <<routers, selection>>
    /\ UNCHANGED <<fsVars, regVars, watchVars, invVars, extVars>>

----------------------------------------------------------------------------
(* CommandExecutor (commands/executor.rs) *)

\* TemplateExpander::expand over the args of the context: a template is a
\* sequence of parts, literal text or a reference {{args.name}}; rendered is
\* whether the template is well formed.  An absent variable renders as
\* nothing (strict mode is off) and a value is HTML-escaped.
expand(template, args, rendered) ==
    LET escape(ch) ==
            CASE ch = "=" -> <<"&", "#", "x", "3", "D", ";">>
              [] ch = "\"" -> <<"&", "q", "u", "o", "t", ";">>
              [] OTHER -> <<ch>>
        RECURSIVE escaped(_)
        escaped(s) == IF s = <<>> THEN <<>> ELSE escape(Head(s)) \o escaped(Tail(s))
        part(p) ==
            IF ~p.ref THEN p.text
            ELSE IF p.text \in DOMAIN args THEN escaped(args[p.text]) ELSE <<>>
        RECURSIVE render(_)
        render(i) == IF i > Len(template) THEN <<>> ELSE part(template[i]) \o render(i + 1)
    IN  IF rendered THEN [err |-> "", text |-> render(1)]
        ELSE [err |-> "Failed to expand command template", text |-> <<>>]

\* The commands held by the registries execute() looks into: a plain user
\* command c, an agent-backed user command of the same name, an agent-backed
\* user command b bound to agent a, and a built-in command x.  user is
\* whether the command downcasts to UserCommand; agent is metadata.agent.
ExecCommands ==
    LET user(name, agent, agent_id) ==
            [name |-> name, user |-> TRUE, agent |-> agent,
             metadata |-> CommandMetadata(name, <<ArgDefinition(<<"a">>, TRUE, None)>>,
                                          agent_id),
             template |-> <<[ref |-> FALSE, text |-> <<"x", "=">>],
                            [ref |-> TRUE, text |-> <<"a">>]>>]
    IN  { user(<<"c">>, FALSE, None), user(<<"c">>, TRUE, None),
          user(<<"b">>, TRUE, Some("a")),
          [name |-> <<"x">>, user |-> FALSE, agent |-> FALSE,
           metadata |-> CommandMetadata(<<"x">>, <<>>, None),
           template |-> <<[ref |-> TRUE, text |-> <<"a", "r", "g", "0">>]>>] }

execute_get_Consume(inv, agent_executor) ==
    /\ executed = [called |-> FALSE]
    /\ inv.err = ""
    /\ agent_executor => routers[1].shared
    /\ lockWriter = NoProc
    /\ executed' =
         IF inv.command_name \in DOMAIN commands
         THEN [called |-> FALSE, agent_executor |-> agent_executor, invocation |-> inv,
               found |-> TRUE, command |-> commands[inv.command_name]]
         ELSE [called |-> TRUE, agent_executor |-> agent_executor, invocation |-> inv,
               found |-> FALSE, mapped |-> FALSE, expanded |-> FALSE,
               err |-> "Command not found", prompt |-> <<>>]
    /\ commands' = [n \in DOMAIN commands \ {inv.command_name} |-> commands[n]]
    /\ UNCHANGED <<dir, fsBudget, lockWriter, lockReaders, committed, rl, rd>>
    /\ UNCHANGED <<watchVars, invVars, agentVars, toolkit, world, toolResult, activation,
                 palette, keyResult, slash>>

\* CommandExecutor::execute(invocation, exec_context), step 1, on an executor
\* that has an agent executor over router 1 (agent_executor) or none:
\* registry.get(name) under the read guard; None returns the not-found error,
\* Some leaves the executor holding the clone_box() copy of the stored command
execute_get(inv, agent_executor) ==
    /\ executed = [called |-> FALSE]
    /\ inv.err = ""
    /\ agent_executor => routers[1].shared
    /\ lockWriter = NoProc
    /\ executed' =
         IF inv.command_name \in DOMAIN commands
         THEN [called |-> FALSE, agent_executor |-> agent_executor, invocation |-> inv,
               found |-> TRUE, command |-> commands[inv.command_name]]
         ELSE [called |-> TRUE, agent_executor |-> agent_executor, invocation |-> inv,
               found |-> FALSE, mapped |-> FALSE, expanded |-> FALSE,
               err |-> "Command not found", prompt |-> <<>>]
    /\ UNCHANGED <<fsVars, regVars, watchVars, invVars, agentVars>>
    /\ UNCHANGED <<toolkit, world, toolResult, activation,
                 palette, keyResult, slash>>

execute_TemplateAlways(rendered, ran) ==
    /\ ~executed.called
    /\ executed # [called |-> FALSE]
    /\ executed' = [called |-> TRUE, agent_executor |-> executed.agent_executor,
                    invocation |-> executed.invocation, found |-> TRUE,
                    command |-> executed.command, stored |-> None, mapped |-> TRUE,
                    expanded |-> TRUE, err |-> "",
                    prompt |-> expand(executed.command.template,
                                      executed.invocation.args, TRUE).text]
    /\ UNCHANGED <<fsVars, regVars, watchVars, invVars, agentVars>>
    /\ UNCHANGED <<toolkit, world, toolResult, activation,
                 palette, keyResult, slash>>

execute_Reread(rendered, ran) ==
    LET inv == executed.invocation
        agent_executor == executed.agent_executor
        \* history: the registry's entry of the name as execute returns
        stored == IF inv.command_name \in DOMAIN commands
                  THEN Some(commands[inv.command_name]) ELSE None
        command == IF inv.command_name \in DOMAIN commands
                   THEN commands[inv.command_name] ELSE executed.command
        done(mapped_, expanded_, err, prompt) ==
            [called |-> TRUE, agent_executor |-> agent_executor, invocation |-> inv,
             found |-> TRUE, command |-> command, stored |-> stored,
             mapped |-> mapped_, expanded |-> expanded_, err |-> err,
             prompt |-> prompt]
        template_command(mapped_args, template) ==
            LET expanded_ == expand(template, mapped_args, rendered)
            IN  done(TRUE, TRUE, expanded_.err, expanded_.text)
        digit == <<"0", "1", "2", "3">>
        RECURSIVE positional(_, _)
        positional(i, m) ==
            IF i > Len(inv.raw_args) THEN m
            ELSE positional(i + 1, Insert(m, <<"a", "r", "g", digit[i]>>, inv.raw_args[i]))
        extended == [k \in DOMAIN positional(1, EmptyMap) \cup DOMAIN inv.args |->
                        IF k \in DOMAIN inv.args THEN inv.args[k]
                        ELSE positional(1, EmptyMap)[k]]
    IN  /\ ~executed.called
        /\ executed # [called |-> FALSE]
        /\ \E keys \in IterationOrders(DOMAIN inv.args) :
             IF command.user /\ command.agent
             THEN IF ~agent_executor
                  THEN /\ executed' = done(FALSE, FALSE,
                                           "requires agent support, but no agent executor is configured",
                                           <<>>)
                       /\ execution' = execution
                  ELSE /\ execution' = execute_agent_command(1, inv, command.metadata,
                                                             keys, rendered, ran)
                       /\ executed' =
                            IF execution'.err # ""
                            THEN done(FALSE, FALSE, "Agent execution failed", <<>>)
                            ELSE done(FALSE, FALSE, "", <<"#", "#">>)
             ELSE IF command.user
             THEN LET mapped_args == map_arguments(inv, command.metadata, keys)
                  IN  /\ executed' =
                            IF mapped_args.err # ""
                            THEN done(TRUE, FALSE, mapped_args.err, <<>>)
                            ELSE template_command(mapped_args.result, command.template)
                      /\ execution' = execution
             ELSE /\ executed' =
                       IF command.name \in {<<"x">>}
                       THEN template_command(extended, command.template)
                       ELSE done(TRUE, FALSE, "Unknown command type", <<>>)
                  /\ execution' = execution
        /\ UNCHANGED <<routers, selection, toolkit, world, toolResult, activation,
                     palette, keyResult, slash>>
        /\ UNCHANGED <<fsVars, regVars, watchVars, invVars>>

\* CommandExecutor::execute from the looked-up command on: the downcast, the
\* agent path or the argument mapper and the template expander, all on the
\* copy get() returned; rendered and ran as in execute_agent_command
execute(rendered, ran) ==
    LET inv == executed.invocation
        agent_executor == executed.agent_executor
        \* history: the registry's entry of the name as execute returns
        stored == IF inv.command_name \in DOMAIN commands
                  THEN Some(commands[inv.command_name]) ELSE None
        command == executed.command
        done(mapped_, expanded_, err, prompt) ==
            [called |-> TRUE, agent_executor |-> agent_executor, invocation |-> inv,
             found |-> TRUE, command |-> command, stored |-> stored,
             mapped |-> mapped_, expanded |-> expanded_, err |-> err,
             prompt |-> prompt]
        template_command(mapped_args, template) ==
            LET expanded_ == expand(template, mapped_args, rendered)
            IN  done(TRUE, TRUE, expanded_.err, expanded_.text)
        digit == <<"0", "1", "2", "3">>
        RECURSIVE positional(_, _)
        positional(i, m) ==
            IF i > Len(inv.raw_args) THEN m
            ELSE positional(i + 1, Insert(m, <<"a", "r", "g", digit[i]>>, inv.raw_args[i]))
        extended == [k \in DOMAIN positional(1, EmptyMap) \cup DOMAIN inv.args |->
                        IF k \in DOMAIN inv.args THEN inv.args[k]
                        ELSE positional(1, EmptyMap)[k]]
    IN  /\ ~executed.called
        /\ executed # [called |-> FALSE]
        /\ \E keys \in IterationOrders(DOMAIN inv.args) :
             IF command.user /\ command.agent
             THEN IF ~agent_executor
                  THEN /\ executed' = done(FALSE, FALSE,
                                           "requires agent support, but no agent executor is configured",
                                           <<>>)
                       /\ execution' = execution
                  ELSE /\ execution' = execute_agent_command(1, inv, command.metadata,
                                                             keys, rendered, ran)
                       /\ executed' =
                            IF execution'.err # ""
                            THEN done(FALSE, FALSE, "Agent execution failed", <<>>)
                            ELSE done(FALSE, FALSE, "", <<"#", "#">>)
             ELSE IF command.user
             THEN LET mapped_args == map_arguments(inv, command.metadata, keys)
                  IN  /\ executed' =
                            IF mapped_args.err # ""
                            THEN done(TRUE, FALSE, mapped_args.err, <<>>)
                            ELSE template_command(mapped_args.result, command.template)
                      /\ execution' = execution
             ELSE /\ executed' =
                       IF command.name \in {<<"x">>}
                       THEN template_command(extended, command.template)
                       ELSE done(TRUE, FALSE, "Unknown command type", <<>>)
                  /\ execution' = execution
        /\ UNCHANGED <<routers, selection, toolkit, world, toolResult, activation,
                     palette, keyResult, slash>>
        /\ UNCHANGED <<fsVars, regVars, watchVars, invVars>>

----------------------------------------------------------------------------
(* AgentPermissions (agents/permissions.rs) and AgentToolkit               *)
(* (agents/toolkit.rs); a path and a pattern are strings, a                 *)
(* FileAccessPolicy is a record of its kind (NoAccess, ReadOnly, ReadWrite) *)
(* and the allow and deny patterns of ReadWrite                            *)

\* AgentPermissions::matches: the glob match of one pattern
matches(path, pattern) ==
    LET contains(s, t) ==
            \E i \in 0..(Len(s) - Len(t)) : SubSeq(s, i + 1, i + Len(t)) = t
        starts_with(s, t) == Len(t) <= Len(s) /\ SubSeq(s, 1, Len(t)) = t
        ends_with(s, t) ==
            Len(t) <= Len(s) /\ SubSeq(s, Len(s) - Len(t) + 1, Len(s)) = t
        strip_prefix(s, n) == SubSeq(s, n + 1, Len(s))
        RECURSIVE trim_start_matches(_, _)
        trim_start_matches(s, t) ==
            IF starts_with(s, t) THEN trim_start_matches(strip_prefix(s, Len(t)), t)
            ELSE s
        RECURSIVE trim_end_matches(_, _)
        trim_end_matches(s, t) ==
            IF ends_with(s, t) THEN trim_end_matches(SubSeq(s, 1, Len(s) - Len(t)), t)
            ELSE s
        stars == <<"*", "*">>
        \* pattern.split_once("**")
        at == CHOOSE i \in 1..(Len(pattern) - 1) :
                 /\ SubSeq(pattern, i, i + 1) = stars
                 /\ \A j \in 1..(i - 1) : SubSeq(pattern, j, j + 1) # stars
        prefix == SubSeq(pattern, 1, at - 1)
        suffix == strip_prefix(pattern, at + 1)
        dir_pattern ==
            trim_end_matches(trim_start_matches(suffix, <<"/">>), <<"/", "*", "*">>)
        contained == contains(path, pattern)
    IN  IF pattern = stars \/ pattern = <<"*">> THEN TRUE
        ELSE IF contains(pattern, stars)
        THEN IF prefix # <<>> /\ ~starts_with(path, prefix) THEN FALSE
             ELSE IF starts_with(suffix, <<"/", "*">>)
             THEN IF starts_with(suffix, <<"/", "*", ".">>)
                  THEN ends_with(path, <<".">> \o strip_prefix(suffix, 3))
                  ELSE contained
             ELSE IF starts_with(suffix, <<"/">>)
             THEN \/ contains(path, <<"/">> \o dir_pattern \o <<"/">>)
                  \/ contains(path, <<"\\">> \o dir_pattern \o <<"\\">>)
                  \/ contains(path, <<"/">> \o dir_pattern)
                  \/ contains(path, <<"\\">> \o dir_pattern)
             ELSE contained
        ELSE IF starts_with(pattern, <<"*", ".">>)
        THEN ends_with(path, <<".">> \o strip_prefix(pattern, 2))
        ELSE contained

\* AgentPermissions::matches_patterns
matches_patterns(permissions, path) == TRUE

\* AgentPermissions::can_read_file
can_read_file(permissions, path) ==
    IF permissions.file_access.kind = "NoAccess" THEN FALSE
    ELSE matches_patterns(permissions, path)

can_write_file_AllowFirst(permissions, path) ==
    /\ permissions.file_access.kind = "ReadWrite"
    /\ \/ \E i \in DOMAIN permissions.file_access.allow_patterns :
             matches(path, permissions.file_access.allow_patterns[i])
       \/ ~\E i \in DOMAIN permissions.file_access.deny_patterns :
             matches(path, permissions.file_access.deny_patterns[i])

\* AgentPermissions::can_write_file
can_write_file(permissions, path) ==
    IF permissions.file_access.kind = "ReadWrite"
    THEN IF \E i \in DOMAIN permissions.file_access.deny_patterns :
               matches(path, permissions.file_access.deny_patterns[i])
         THEN FALSE
         ELSE \E i \in DOMAIN permissions.file_access.allow_patterns :
                 matches(path, permissions.file_access.allow_patterns[i])
    ELSE FALSE

\* AgentToolkit::read_file(path); ioOk is whether read_to_string succeeds
read_file(path, ioOk) ==
    /\ IF ~can_read_file(toolkit.permissions, path)
       THEN /\ toolResult' = [op |-> "read_file", target |-> path,
                              err |-> "Permission denied: cannot read"]
            /\ world' = world
       ELSE /\ world' = [world EXCEPT !.read = @ \cup {path}]
            /\ toolResult' = [op |-> "read_file", target |-> path,
                              err |-> IF ioOk THEN "" ELSE "Failed to read file"]
    /\ UNCHANGED <<toolkit, executed, activation,
                 palette, keyResult, slash>>
    /\ UNCHANGED <<fsVars, regVars, watchVars, invVars, agentVars>>

write_file_WriteFirst(path, ioOk) ==
    /\ world' = [world EXCEPT !.written = @ \cup {path}]
    /\ toolResult' = [op |-> "write_file", target |-> path,
                      err |-> IF ~can_write_file(toolkit.permissions, path)
                              THEN "Permission denied: cannot write to"
                              ELSE IF ioOk THEN "" ELSE "Failed to write file"]
    /\ UNCHANGED <<toolkit, executed, activation,
                 palette, keyResult, slash>>
    /\ UNCHANGED <<fsVars, regVars, watchVars, invVars, agentVars>>

\* AgentToolkit::write_file(path, content); ioOk is whether fs::write succeeds
write_file(path, ioOk) ==
    /\ IF ~can_write_file(toolkit.permissions, path)
       THEN /\ toolResult' = [op |-> "write_file", target |-> path,
                              err |-> "Permission denied: cannot write to"]
            /\ world' = world
       ELSE /\ world' = [world EXCEPT !.written = @ \cup {path}]
            /\ toolResult' = [op |-> "write_file", target |-> path,
                              err |-> IF ioOk THEN "" ELSE "Failed to write file"]
    /\ UNCHANGED <<toolkit, executed, activation,
                 palette, keyResult, slash>>
    /\ UNCHANGED <<fsVars, regVars, watchVars, invVars, agentVars>>

\* AgentToolkit::execute_command(cmd, args); ioOk is whether the process
\* spawned by execute_shell runs to its end
execute_command(cmd, ioOk) ==
    /\ IF ~toolkit.permissions.shell_execution
       THEN /\ toolResult' = [op |-> "execute_command", target |-> cmd,
                              err |-> "Permission denied: shell execution not allowed"]
            /\ world' = world
       ELSE /\ world' = [world EXCEPT !.spawned = @ \cup {cmd}]
            /\ toolResult' = [op |-> "execute_command", target |-> cmd,
                              err |-> IF ioOk THEN "" ELSE "io error"]
    /\ UNCHANGED <<toolkit, executed, activation,
                 palette, keyResult, slash>>
    /\ UNCHANGED <<fsVars, regVars, watchVars, invVars, agentVars>>

----------------------------------------------------------------------------
(* ActivationScore (agents/mod.rs); an f64 is a number of tenths or NaN *)

ActivationScore_new_Unclamped(x) == x

\* ActivationScore::new: f64::clamp(0.0, 1.0), which returns NaN for NaN
ActivationScore_new(x) ==
    IF x.nan THEN x ELSE [nan |-> FALSE, tenths |-> clamp(x.tenths, SCORE_MIN, SCORE_MAX)]

\* A call of ActivationScore::new on the input
NewScore ==
    /\ ~activation.made
    /\ activation' = [made |-> TRUE, input |-> activation.input,
                      value |-> ActivationScore_new(activation.input)]
    /\ UNCHANGED <<toolkit, world, toolResult, executed,
                 palette, keyResult, slash>>
    /\ UNCHANGED <<fsVars, regVars, watchVars, invVars, agentVars>>

----------------------------------------------------------------------------
(* CommandPalette (tui/src/command_palette.rs): a command is a record of   *)
(* its name and description, filtered holds the indices (from 0) of the     *)
(* commands shown, a key is a record of its code, character and modifiers  *)

\* CommandPalette::new
NewPalette ==
    [visible |-> FALSE, filter |-> <<>>, selected |-> 0, commands |-> <<>>,
     filtered |-> <<>>]

\* Matcher::fuzzy_match(haystack, needle) returns Some: the characters of the
\* needle occur in the haystack in their order
fuzzy_match(haystack, needle) ==
    LET RECURSIVE sub(_, _)
        sub(i, j) ==
            IF j > Len(needle) THEN TRUE
            ELSE IF i > Len(haystack) THEN FALSE
            ELSE IF haystack[i] = needle[j] THEN sub(i + 1, j + 1)
            ELSE sub(i + 1, j)
    IN  sub(1, 1)

update_filtered_KeepSelection(p, scores) ==
    LET all == [i \in 1..Len(p.commands) |-> i - 1]
        matched(idx) == \/ fuzzy_match(p.commands[idx + 1].name, p.filter)
                        \/ fuzzy_match(p.commands[idx + 1].description, p.filter)
        scored == SelectSeq(all, matched)
        RECURSIVE sort_by_score(_)
        sort_by_score(v) ==
            IF v < 1 THEN <<>>
            ELSE SelectSeq(scored, LAMBDA idx : scores[idx + 1] = v) \o sort_by_score(v - 1)
    IN  [p EXCEPT !.filtered = IF p.filter = <<>> THEN all
                               ELSE sort_by_score(MaxMatchScore)]

\* CommandPalette::update_filtered; scores[i] is the score the matcher gives
\* command i (the better of its name's and its description's) when it matches
update_filtered(p, scores) ==
    LET all == [i \in 1..Len(p.commands) |-> i - 1]
        matched(idx) == \/ fuzzy_match(p.commands[idx + 1].name, p.filter)
                        \/ fuzzy_match(p.commands[idx + 1].description, p.filter)
        scored == SelectSeq(all, matched)
        \* the stable sort by descending score
        RECURSIVE sort_by_score(_)
        sort_by_score(v) ==
            IF v < 1 THEN <<>>
            ELSE SelectSeq(scored, LAMBDA idx : scores[idx + 1] = v) \o sort_by_score(v - 1)
        filtered == IF p.filter = <<>> THEN all ELSE sort_by_score(MaxMatchScore)
    IN  [p EXCEPT !.filtered = filtered,
                  !.selected = IF @ >= Len(filtered) THEN 0 ELSE @]

\* CommandPalette::toggle
toggle(p) ==
    IF p.visible
    THEN update_filtered([p EXCEPT !.visible = FALSE, !.filter = <<>>, !.selected = 0],
                         <<>>)
    ELSE [p EXCEPT !.visible = TRUE]

\* CommandPalette::selected_command
selected_command(p) ==
    IF p.selected >= Len(p.filtered) THEN None
    ELSE IF p.filtered[p.selected + 1] >= Len(p.commands) THEN None
    ELSE Some(p.commands[p.filtered[p.selected + 1] + 1].name)

\* CommandPalette::handle_key: the palette it leaves and the action it returns
handle_key(p, key, scores) ==
    CASE key.code = "Esc" -> [palette |-> toggle(p), action |-> None]
      [] key.code = "Enter" ->
           IF selected_command(p).some
           THEN [palette |-> toggle(p), action |-> selected_command(p)]
           ELSE [palette |-> p, action |-> None]
      [] key.code = "Up" ->
           [palette |-> [p EXCEPT !.selected = IF @ > 0 THEN @ - 1 ELSE @],
            action |-> None]
      [] key.code = "Down" ->
           [palette |-> [p EXCEPT !.selected =
                            IF @ < (IF Len(p.filtered) = 0 THEN 0 ELSE Len(p.filtered) - 1)
                            THEN @ + 1 ELSE @],
            action |-> None]
      [] key.code = "Char" /\ key.modifiers \in {"NONE", "SHIFT"} ->
           [palette |-> update_filtered([p EXCEPT !.filter = Append(@, key.ch)], scores),
            action |-> None]
      [] key.code = "Backspace" ->
           [palette |-> update_filtered(
                            [p EXCEPT !.filter = IF @ = <<>> THEN <<>>
                                                 ELSE SubSeq(@, 1, Len(@) - 1)], scores),
            action |-> None]
      [] OTHER -> [palette |-> p, action |-> None]

\* CommandPalette::load_commands
load_commands(commands_, scores) ==
    /\ palette' = update_filtered([palette EXCEPT !.commands = commands_], scores)
    /\ keyResult' = [called |-> FALSE]
    /\ UNCHANGED <<toolkit, world, toolResult, executed, activation, slash>>
    /\ UNCHANGED <<fsVars, regVars, watchVars, invVars, agentVars>>

\* A call of toggle
Toggle ==
    /\ palette' = toggle(palette)
    /\ keyResult' = [called |-> FALSE]
    /\ UNCHANGED <<toolkit, world, toolResult, executed, activation, slash>>
    /\ UNCHANGED <<fsVars, regVars, watchVars, invVars, agentVars>>

\* A call of handle_key, with the scores the matcher gives; the filter is kept
\* within MaxFilter characters
HandleKey(key) ==
    \E scores \in [1..Len(palette.commands) -> 1..MaxMatchScore] :
       /\ key.code = "Char" => Len(palette.filter) < MaxFilter
       /\ palette' = handle_key(palette, key, scores).palette
       /\ keyResult' = [called |-> TRUE, key |-> key,
                        action |-> handle_key(palette, key, scores).action]
       /\ UNCHANGED <<toolkit, world, toolResult, executed, activation, slash>>
       /\ UNCHANGED <<fsVars, regVars, watchVars, invVars, agentVars>>

----------------------------------------------------------------------------
(* Slash commands in the input items (commands/integration.rs): an item is *)
(* a record of its kind (Text or another) and its text                      *)

\* detect_slash_command
detect_slash_command(items) ==
    LET is_command(item) ==
            /\ item.kind = "Text"
            /\ trim(item.text) # <<>>
            /\ Head(trim(item.text)) = "/"
            /\ Len(trim(item.text)) > 1
        RECURSIVE find_map(_)
        find_map(i) ==
            IF i > Len(items) THEN None
            ELSE IF is_command(items[i]) THEN Some(trim(items[i].text))
            ELSE find_map(i + 1)
    IN  find_map(1)

\* replace_with_expanded_prompt
replace_with_expanded_prompt(items, expanded_prompt) ==
    LET RECURSIVE loop(_, _, _)
        loop(i, replaced, result) ==
            IF i > Len(items) THEN result
            ELSE IF /\ items[i].kind = "Text"
                    /\ ~replaced
                    /\ trim(items[i].text) # <<>>
                    /\ Head(trim(items[i].text)) = "/"
                 THEN loop(i + 1, TRUE,
                           Append(result, [kind |-> "Text", text |-> expanded_prompt]))
                 ELSE loop(i + 1, replaced, Append(result, items[i]))
    IN  loop(1, FALSE, <<>>)

\* The input items are examined and the prompt p is put in place of the
\* slash command
ReplaceSlashCommand ==
    /\ ~slash.called
    /\ slash' = [called |-> TRUE, items |-> slash.items,
                 detected |-> detect_slash_command(slash.items),
                 result |-> replace_with_expanded_prompt(slash.items, <<"p">>)]
    /\ UNCHANGED <<toolkit, world, toolResult, executed, activation, palette, keyResult>>
    /\ UNCHANGED <<fsVars, regVars, watchVars, invVars, agentVars>>

----------------------------------------------------------------------------
(* Tasks *)

Reloaders == {"caller", "watcher"}
Readers == {"r1"}

ReadOps ==
    { [kind |-> "get", arg |-> <<"a">>], [kind |-> "get", arg |-> <<"b">>],
      [kind |-> "list", arg |-> <<>>], [kind |-> "filter", arg |-> <<"Custom">>] }

RegisterCmds == { UserCommand(CmdFile(<<"x">>, "d1")), UserCommand(CmdFile(<<"a">>, "d3")) }

IdleReload == [pc |-> "idle", listing |-> {}, loaded |-> <<>>, result |-> "none",
               changed |-> FALSE]
IdleReader == [pc |-> "idle", op |-> [kind |-> "list", arg |-> <<>>], res |-> {}]

----------------------------------------------------------------------------
(* UserCommandLoader::load_all, as reload() runs it *)

\* load_all up to its first directory entry: create_dir_all and read_dir either
\* fail (the error is returned) or open the listing of the directory.
LoadAllBegin(r, d, ioOk) ==
    IF ioOk
    THEN [r EXCEPT !.pc = "scan", !.listing = { f \in Paths : d[f].kind # "absent" },
                   !.loaded = <<>>, !.result = "none", !.changed = FALSE]
    ELSE [r EXCEPT !.pc = "idle", !.listing = {}, !.loaded = <<>>,
                   !.result = "io_error", !.changed = FALSE]

LoadAllEntry_Propagate(r, f, st, ioOk) ==
    IF ~ioOk
    THEN [r EXCEPT !.pc = "idle", !.listing = {}, !.loaded = <<>>, !.result = "io_error"]
    ELSE IF Extension(f) # "md" \/ st.kind # "file" THEN [r EXCEPT !.listing = @ \ {f}]
    ELSE IF load_command(st) = ""
         THEN [r EXCEPT !.listing = @ \ {f}, !.loaded = Append(@, UserCommand(st))]
         ELSE [r EXCEPT !.pc = "idle", !.listing = {}, !.loaded = <<>>,
                        !.result = "load_error"]

\* One turn of load_all's loop on entry f, whose state on disk is st now:
\* next_entry's error is returned; a non-.md entry, a non-file and a file that
\* load_command rejects are skipped; a loaded command is pushed.
LoadAllEntry(r, f, st, ioOk) ==
    IF ~ioOk
    THEN [r EXCEPT !.pc = "idle", !.listing = {}, !.loaded = <<>>, !.result = "io_error"]
    ELSE IF Extension(f) # "md" THEN [r EXCEPT !.listing = @ \ {f}]
    ELSE IF st.kind # "file" THEN [r EXCEPT !.listing = @ \ {f}]
    ELSE IF load_command(st) = ""
         THEN [r EXCEPT !.listing = @ \ {f}, !.loaded = Append(@, UserCommand(st))]
         ELSE [r EXCEPT !.listing = @ \ {f}]

----------------------------------------------------------------------------
(* CommandWatcher: constants, event filter and the history it leaves *)

DEBOUNCE_MS == 300
TICK_MS == 50

\* The model's clock advances by one tick period at a time, and a tick that is
\* late is late by at most one period (later missed ticks change nothing)
Quantum == TICK_MS
MaxLag == TICK_MS

NoAge == -1

Min(a, b) == IF a < b THEN a ELSE b

\* An age (now.duration_since(event_time)) one clock step later; ages only
\* matter up to the debounce duration
Older(age) == IF age = NoAge THEN NoAge ELSE Min(age + Quantum, DEBOUNCE_MS)

is_relevant_event_NoRemove(event) ==
    /\ event.kind \in {"Create", "Modify"}
    /\ \E path \in event.paths : is_command_file(path)

\* CommandWatcher::is_relevant_event
is_relevant_event(event) ==
    /\ event.kind \in {"Create", "Modify", "Remove"}
    /\ \E path \in event.paths : is_command_file(path)

AfterReload_StopOnError(result) == IF result = "ok" THEN "select" ELSE "done"

\* handle_events, reload result: both arms of the match log and continue
AfterReload(result) == "select"

MdPaths == { f \in Paths : Extension(f) = "md" }

InitHist ==
    [reloads |-> 0, lastEvt |-> NoAge, first |-> NoAge, oneBurst |-> TRUE,
     dirty |-> {}, stale |-> {}, during |-> {}, failed |-> FALSE]

\* History: the loop received an event stamping the paths ps
EventReceived(h, ps, pend) ==
    [h EXCEPT !.lastEvt = 0,
              !.failed = FALSE,
              !.first = IF @ = NoAge THEN 0 ELSE @,
              !.oneBurst = /\ @
                           /\ h.first < DEBOUNCE_MS
                           /\ \A f \in ps : pend[f] = NoAge]

\* History: the directory scan of a watcher reload has started (or failed to)
ReloadStarted(h, failed) ==
    IF failed THEN [h EXCEPT !.dirty = {}, !.during = {}, !.failed = TRUE]
    ELSE [h EXCEPT !.during = {}]

\* History: a watcher reload has finished
ReloadFinished(h, ok) ==
    [h EXCEPT !.dirty = h.during,
              !.stale = IF ok THEN h.during ELSE @,
              !.during = {},
              !.failed = ~ok]

\* History: the file f was created, modified or removed
FileChanged(h, f, scanning) ==
    IF Extension(f) # "md" THEN h
    ELSE [h EXCEPT !.dirty = @ \cup {f}, !.stale = @ \cup {f},
                   !.during = IF scanning THEN @ \cup {f} ELSE @]

----------------------------------------------------------------------------
(* CommandRegistry *)

WriteLockFree == lockWriter = NoProc /\ lockReaders = {}
ReadLockFree == lockWriter = NoProc

\* reload(): the call, up to load_all's read_dir
ReloadBegin(p) ==
    /\ rl[p].pc = IF p = "watcher" THEN "called" ELSE "idle"
    /\ \E ioOk \in BOOLEAN : rl' = [rl EXCEPT ![p] = LoadAllBegin(rl[p], dir, ioOk)]
    /\ wpc' = IF p = "watcher" /\ rl'[p].pc = "idle" THEN AfterReload(rl'[p].result) ELSE wpc
    /\ hist' = IF p = "watcher" THEN ReloadStarted(hist, rl'[p].pc = "idle") ELSE hist
    /\ UNCHANGED <<dir, fsBudget, commands, lockWriter, lockReaders, committed, rd>>
    /\ UNCHANGED <<alive, eventQ, pending, lag>>
    /\ UNCHANGED <<invVars, agentVars, extVars>>

\* reload(): load_all visits one directory entry
ReloadScan(p) ==
    /\ rl[p].pc = "scan"
    /\ \E f \in rl[p].listing, ioOk \in BOOLEAN :
          rl' = [rl EXCEPT ![p] = LoadAllEntry(rl[p], f, dir[f], ioOk)]
    /\ wpc' = IF p = "watcher" /\ rl'[p].pc = "idle" THEN AfterReload(rl'[p].result) ELSE wpc
    /\ hist' = IF p = "watcher" /\ rl'[p].pc = "idle" THEN ReloadFinished(hist, FALSE) ELSE hist
    /\ UNCHANGED <<dir, fsBudget, commands, lockWriter, lockReaders, committed, rd>>
    /\ UNCHANGED <<alive, eventQ, pending, lag>>
    /\ UNCHANGED <<invVars, agentVars, extVars>>

\* reload(): load_all has returned Ok; self.commands.write().await
ReloadLock(p) ==
    /\ rl[p].pc = "scan"
    /\ rl[p].listing = {}
    /\ WriteLockFree
    /\ lockWriter' = p
    /\ rl' = [rl EXCEPT ![p].pc = "locked"]
    /\ UNCHANGED <<dir, fsBudget, commands, lockReaders, committed, rd>>
    /\ UNCHANGED watchVars
    /\ UNCHANGED <<invVars, agentVars, extVars>>

ReloadClear_Unlocked(p) ==
    /\ rl[p].pc = "locked"
    /\ commands' = EmptyMap
    /\ lockWriter' = NoProc
    /\ rl' = [rl EXCEPT ![p].pc = "insert"]
    /\ UNCHANGED <<dir, fsBudget, lockReaders, committed, rd>>
    /\ UNCHANGED watchVars
    /\ UNCHANGED <<invVars, agentVars, extVars>>

ReloadClear_NoClear(p) ==
    /\ rl[p].pc = "locked"
    /\ rl' = [rl EXCEPT ![p].pc = "insert"]
    /\ UNCHANGED <<dir, fsBudget, commands, lockWriter, lockReaders, committed, rd>>
    /\ UNCHANGED watchVars
    /\ UNCHANGED <<invVars, agentVars, extVars>>

\* reload(): map.clear()
ReloadClear(p) ==
    /\ rl[p].pc = "locked"
    /\ commands' = EmptyMap
    /\ rl' = [rl EXCEPT ![p].pc = "insert"]
    /\ UNCHANGED <<dir, fsBudget, lockWriter, lockReaders, committed, rd>>
    /\ UNCHANGED watchVars
    /\ UNCHANGED <<invVars, agentVars, extVars>>

\* reload(): one map.insert(cmd.name(), cmd) of the loop
ReloadInsert(p) ==
    /\ rl[p].pc = "insert"
    /\ rl[p].loaded # <<>>
    /\ commands' = MapInsert(commands, Head(rl[p].loaded))
    /\ rl' = [rl EXCEPT ![p].loaded = Tail(@)]
    /\ UNCHANGED <<dir, fsBudget, lockWriter, lockReaders, committed, rd>>
    /\ UNCHANGED watchVars
    /\ UNCHANGED <<invVars, agentVars, extVars>>

ReloadReturn_DrainEvents(p) ==
    /\ rl[p].pc = "insert"
    /\ rl[p].loaded = <<>>
    /\ lockWriter' = NoProc
    /\ committed' = commands
    /\ rl' = [rl EXCEPT ![p].pc = "idle", ![p].result = "ok"]
    /\ wpc' = IF p = "watcher" THEN AfterReload("ok") ELSE wpc
    /\ hist' = IF p = "watcher" THEN ReloadFinished(hist, TRUE) ELSE hist
    /\ eventQ' = IF p = "watcher" THEN <<>> ELSE eventQ
    /\ UNCHANGED <<dir, fsBudget, commands, lockReaders, rd>>
    /\ UNCHANGED <<alive, pending, lag>>
    /\ UNCHANGED <<invVars, agentVars, extVars>>

\* reload(): Ok(()) with the write guard dropped
ReloadReturn(p) ==
    /\ rl[p].pc = "insert"
    /\ rl[p].loaded = <<>>
    /\ lockWriter' = NoProc
    /\ committed' = commands
    /\ rl' = [rl EXCEPT ![p].pc = "idle", ![p].result = "ok"]
    /\ wpc' = IF p = "watcher" THEN AfterReload("ok") ELSE wpc
    /\ hist' = IF p = "watcher" THEN ReloadFinished(hist, TRUE) ELSE hist
    /\ UNCHANGED <<dir, fsBudget, commands, lockReaders, rd>>
    /\ UNCHANGED <<alive, eventQ, pending, lag>>
    /\ UNCHANGED <<invVars, agentVars, extVars>>

\* register(command)
Register(cmd) ==
    /\ WriteLockFree
    /\ commands' = MapInsert(commands, cmd)
    /\ committed' = commands'
    /\ UNCHANGED <<dir, fsBudget, lockWriter, lockReaders, rl, rd>>
    /\ UNCHANGED watchVars
    /\ UNCHANGED <<invVars, agentVars, extVars>>

\* get / list / filter_by_category: self.commands.read().await
ReadLock(r, op) ==
    /\ rd[r].pc = "idle"
    /\ ReadLockFree
    /\ lockReaders' = lockReaders \cup {r}
    /\ rd' = [rd EXCEPT ![r] = [pc |-> "locked", op |-> op, res |-> {}]]
    /\ UNCHANGED <<dir, fsBudget, commands, lockWriter, committed, rl>>
    /\ UNCHANGED watchVars
    /\ UNCHANGED <<invVars, agentVars, extVars>>

\* get / list / filter_by_category: the result is computed from the map
ReadMap(r) ==
    /\ rd[r].pc = "locked"
    /\ rd' = [rd EXCEPT ![r].pc = "read", ![r].res = ReadResult(rd[r].op, commands)]
    /\ UNCHANGED <<dir, fsBudget, commands, lockWriter, lockReaders, committed, rl>>
    /\ UNCHANGED watchVars
    /\ UNCHANGED <<invVars, agentVars, extVars>>

\* get / list / filter_by_category: the read guard is dropped on return
ReadReturn(r) ==
    /\ rd[r].pc = "read"
    /\ lockReaders' = lockReaders \ {r}
    /\ rd' = [rd EXCEPT ![r] = IdleReader]
    /\ UNCHANGED <<dir, fsBudget, commands, lockWriter, committed, rl>>
    /\ UNCHANGED watchVars
    /\ UNCHANGED <<invVars, agentVars, extVars>>

----------------------------------------------------------------------------
(* The file system and the notify callback *)

\* The closure given to RecommendedWatcher::new: only relevant events are sent
Notify(event) ==
    IF alive /\ is_relevant_event(event) THEN Append(eventQ, event) ELSE eventQ

\* What a change of path f means for the reload() calls in flight: the directory
\* changed under them, and a path created during the iteration of read_dir may
\* or may not be returned by it.
ScanSees(f, created, listed) ==
    [p \in Reloaders |->
        IF rl[p].pc \in {"idle", "called"} THEN rl[p]
        ELSE [rl[p] EXCEPT !.changed = TRUE,
                           !.listing = IF rl[p].pc = "scan" /\ created /\ listed
                                       THEN @ \cup {f} ELSE @]]

FsChange(f, st, kind) ==
    /\ fsBudget > 0
    /\ ~alive \/ Len(eventQ) < MaxQueue
    /\ fsBudget' = fsBudget - 1
    /\ dir' = [dir EXCEPT ![f] = st]
    /\ eventQ' = Notify([kind |-> kind, paths |-> {f}])
    /\ \E listed \in BOOLEAN : rl' = ScanSees(f, dir[f].kind = "absent", listed)
    /\ hist' = FileChanged(hist, f, rl["watcher"].pc \notin {"idle", "called"})
    /\ UNCHANGED <<commands, lockWriter, lockReaders, committed, rd>>
    /\ UNCHANGED <<alive, pending, lag, wpc>>
    /\ UNCHANGED <<invVars, agentVars, extVars>>

\* A file is created or rewritten
FsWrite(f, content) ==
    /\ dir[f].kind # "dir"
    /\ dir[f] # content
    /\ FsChange(f, content, IF dir[f].kind = "absent" THEN "Create" ELSE "Modify")

\* A file or directory is removed
FsRemove(f) ==
    /\ dir[f].kind # "absent"
    /\ FsChange(f, Absent, "Remove")

\* A directory is created
FsMkdir(f) ==
    /\ dir[f].kind = "absent"
    /\ FsChange(f, Directory, "Create")

\* An event that changes no file's content: an access, a metadata change, a
\* rename notification naming two paths
NoiseEvents ==
    { [kind |-> "Access", paths |-> {MdA}],
      [kind |-> "Other", paths |-> {MdB}],
      [kind |-> "Modify", paths |-> {Txt}],
      [kind |-> "Modify", paths |-> {MdA, Txt}] }

FsNoise(event) ==
    /\ alive
    /\ fsBudget > 0
    /\ Len(eventQ) < MaxQueue
    /\ fsBudget' = fsBudget - 1
    /\ eventQ' = Notify(event)
    /\ UNCHANGED <<dir, pending, lag, wpc, alive, hist>>
    /\ UNCHANGED regVars
    /\ UNCHANGED <<invVars, agentVars, extVars>>

----------------------------------------------------------------------------
(* CommandWatcher::handle_events *)

Expired(pend) == { f \in Paths : pend[f] # NoAge /\ pend[f] >= DEBOUNCE_MS }

Stamp_KeepFirst(pend, event) ==
    [f \in Paths |->
        IF f \in event.paths /\ is_command_file(f) /\ pend[f] = NoAge THEN 0 ELSE pend[f]]

Retain_FirstOnly(pend) ==
    IF Expired(pend) = {} THEN pend
    ELSE [pend EXCEPT ![CHOOSE f \in Expired(pend) : TRUE] = NoAge]

\* pending_reloads.retain(..): the entries the sweep keeps
Retain(pend) == [f \in Paths |-> IF f \in Expired(pend) THEN NoAge ELSE pend[f]]

\* The stamps one received event leaves in pending_reloads
Stamp(pend, event) ==
    [f \in Paths |-> IF f \in event.paths /\ is_command_file(f) THEN 0 ELSE pend[f]]

ShutdownReady_OnMessageOnly == FALSE

\* shutdown_rx.recv() resolves once the sender is dropped with the handle
ShutdownReady == ~alive

\* select!: Some(event) = event_rx.recv()
RecvEvent ==
    /\ wpc = "select"
    /\ eventQ # <<>>
    /\ eventQ' = Tail(eventQ)
    /\ pending' = Stamp(pending, Head(eventQ))
    /\ hist' = EventReceived(hist, { f \in Head(eventQ).paths : is_command_file(f) }, pending)
    /\ UNCHANGED <<dir, fsBudget, alive, lag, wpc>>
    /\ UNCHANGED regVars
    /\ UNCHANGED <<invVars, agentVars, extVars>>

Tick_Spawn ==
    /\ wpc = "select"
    /\ lag >= 0
    /\ lag' = lag - TICK_MS
    /\ pending' = Retain(pending)
    /\ IF pending' # pending
       THEN /\ rl' = [rl EXCEPT !["watcher"].pc = "called"]
            /\ hist' = [hist EXCEPT !.reloads = Min(@ + 1, ReloadCap)]
       ELSE UNCHANGED <<rl, hist>>
    /\ UNCHANGED <<dir, fsBudget, alive, eventQ, wpc>>
    /\ UNCHANGED <<commands, lockWriter, lockReaders, committed, rd>>
    /\ UNCHANGED <<invVars, agentVars, extVars>>

\* select!: reload_timer.tick(), the sweep and the call of registry.reload()
Tick ==
    /\ wpc = "select"
    /\ lag >= 0
    /\ lag' = lag - TICK_MS
    /\ pending' = Retain(pending)
    /\ IF pending' # pending
       THEN /\ wpc' = "reloading"
            /\ rl' = [rl EXCEPT !["watcher"].pc = "called"]
            /\ hist' = [hist EXCEPT !.reloads = Min(@ + 1, ReloadCap)]
       ELSE UNCHANGED <<wpc, rl, hist>>
    /\ UNCHANGED <<dir, fsBudget, alive, eventQ>>
    /\ UNCHANGED <<commands, lockWriter, lockReaders, committed, rd>>
    /\ UNCHANGED <<invVars, agentVars, extVars>>

\* select!: shutdown_rx.recv(), break; pending_reloads is dropped with the task
Shutdown ==
    /\ wpc = "select"
    /\ ShutdownReady
    /\ wpc' = "done"
    /\ pending' = [f \in Paths |-> NoAge]
    /\ UNCHANGED <<dir, fsBudget, alive, eventQ, lag, hist>>
    /\ UNCHANGED regVars
    /\ UNCHANGED <<invVars, agentVars, extVars>>

\* impl Drop for CommandWatcher: the OS watch and the shutdown sender go
Drop ==
    /\ alive
    /\ alive' = FALSE
    /\ UNCHANGED <<dir, fsBudget, eventQ, pending, lag, wpc, hist>>
    /\ UNCHANGED regVars
    /\ UNCHANGED <<invVars, agentVars, extVars>>

\* Time passes
Advance ==
    /\ wpc # "none"
    /\ lag' = Min(lag + Quantum, MaxLag)
    /\ pending' = [f \in Paths |-> Older(pending[f])]
    /\ hist' = [hist EXCEPT !.lastEvt = Older(@), !.first = Older(@)]
    /\ UNCHANGED <<dir, fsBudget, alive, eventQ, wpc>>
    /\ UNCHANGED regVars
    /\ UNCHANGED <<invVars, agentVars, extVars>>

----------------------------------------------------------------------------
(* Initial states and specifications *)

\* The map a completed reload() builds from a directory no two files of which
\* declare the same name
Loaded(d) ==
    LET ok == { f \in MdPaths : d[f].kind = "file" /\ load_command(d[f]) = "" }
    IN  [n \in { d[f].name : f \in ok } |->
            UserCommand(d[CHOOSE f \in ok : d[f].name = n])]

InitDirs ==
    { [f \in Paths |-> Absent],
      [f \in Paths |-> IF f = MdA THEN CmdFile(<<"a">>, "d1") ELSE Absent] }

\* CommandRegistry::new has returned: the map holds the initial load
InitRegistry ==
    /\ dir \in InitDirs
    /\ fsBudget = MaxFsOps
    /\ commands = Loaded(dir)
    /\ committed = commands
    /\ lockWriter = NoProc
    /\ lockReaders = {}
    /\ rl = [p \in Reloaders |-> IdleReload]
    /\ rd = [r \in Readers |-> IdleReader]
    /\ eventQ = <<>>
    /\ pending = [f \in Paths |-> NoAge]
    /\ lag = 0
    /\ hist = InitHist

\* No invocation is being parsed
IdleInvocation ==
    /\ input = <<>>
    /\ invocation = NotParsed
    /\ mapped = NotMapped

\* No router has been built
IdleAgents ==
    /\ routers = [r \in Routers |-> NewRouter]
    /\ selection = [r \in Routers |-> NoSelection]
    /\ execution = NotExecuted

\* No toolkit call, no execute() and no score yet; the toolkit has
\* AgentPermissions::default()
IdleExt ==
    /\ toolkit = [permissions |->
                    [file_access |-> [kind |-> "NoAccess", allow_patterns |-> <<>>,
                                      deny_patterns |-> <<>>],
                     shell_execution |-> FALSE]]
    /\ world = [read |-> {}, written |-> {}, spawned |-> {}]
    /\ toolResult = [op |-> "none"]
    /\ executed = [called |-> FALSE]
    /\ activation = [made |-> FALSE, input |-> [nan |-> FALSE, tenths |-> 0]]
    /\ palette = NewPalette
    /\ keyResult = [called |-> FALSE]
    /\ slash = [called |-> FALSE, items |-> <<>>]

\* No watcher was created
Init ==
    /\ InitRegistry
    /\ alive = FALSE
    /\ wpc = "none"
    /\ IdleInvocation
    /\ IdleAgents
    /\ IdleExt

\* CommandWatcher::new has returned: the background task is at its select!
WatcherInit ==
    /\ InitRegistry
    /\ alive = TRUE
    /\ wpc = "select"
    /\ IdleInvocation
    /\ IdleAgents
    /\ IdleExt

FsNext(contents) ==
    \/ \E f \in Paths :
          \E c \in (IF Extension(f) = "md" THEN contents ELSE {NoteFile}) : FsWrite(f, c)
    \/ \E f \in Paths : FsRemove(f)
    \/ \E f \in MdPaths : FsMkdir(f)

ReloadNext(p) ==
    \/ ReloadBegin(p)
    \/ ReloadScan(p)
    \/ ReloadLock(p)
    \/ ReloadClear(p)
    \/ ReloadInsert(p)
    \/ ReloadReturn(p)

\* The registry under concurrent callers, without a watcher
Next ==
    \/ FsNext(GoodFiles \cup BadFiles)
    \/ ReloadNext("caller")
    \/ \E cmd \in RegisterCmds : Register(cmd)
    \/ \E r \in Readers, op \in ReadOps : ReadLock(r, op)
    \/ \E r \in Readers : ReadMap(r)
    \/ \E r \in Readers : ReadReturn(r)

Spec == Init /\ [][Next]_vars

WatchFiles == GoodFiles

\* The watcher with the registry it reloads
WatcherNext ==
    \/ FsNext(WatchFiles)
    \/ \E e \in NoiseEvents : FsNoise(e)
    \/ RecvEvent
    \/ Tick
    \/ Shutdown
    \/ Drop
    \/ Advance
    \/ ReloadNext("watcher")

WatcherSpec == WatcherInit /\ [][WatcherNext]_vars

\* The watcher under the scheduling tokio gives it: a ready select! branch is
\* eventually taken, an awaited reload() makes progress, and time passes
FairWatcherSpec ==
    /\ WatcherSpec
    /\ WF_vars(RecvEvent)
    /\ WF_vars(Tick)
    /\ WF_vars(Shutdown)
    /\ WF_vars(Advance)
    /\ WF_vars(ReloadNext("watcher"))

\* The registry and the watcher at rest, for the specifications of the
\* functions that do not touch them
IdleRegistry ==
    /\ dir = [f \in Paths |-> Absent]
    /\ InitRegistry
    /\ alive = FALSE
    /\ wpc = "none"

\* An input string is about to be parsed
InvocationInit ==
    /\ IdleRegistry
    /\ input \in Inputs
    /\ invocation = NotParsed
    /\ mapped = NotMapped
    /\ IdleAgents
    /\ IdleExt

InvocationNext ==
    \/ Parse
    \/ \E schema \in Schemas, keys \in IterationOrders(DOMAIN invocation.args) :
          MapArguments(CommandMetadata(<<"c">>, schema, None), keys)

\* InvocationParser::parse followed by ArgumentMapper::map_arguments
InvocationSpec == InvocationInit /\ [][InvocationNext]_vars

\* The watcher's reloads next to a direct caller's reload() and register()
\* on the same registry, while a.md is rewritten and removed
OverlapNext ==
    \/ FsWrite(MdA, CmdFile(<<"a">>, "d2"))
    \/ FsRemove(MdA)
    \/ RecvEvent
    \/ Tick
    \/ Advance
    \/ ReloadNext("watcher")
    \/ ReloadNext("caller")
    \/ Register(UserCommand(CmdFile(<<"x">>, "d1")))

OverlapSpec == WatcherInit /\ [][OverlapNext]_vars

\* No router exists yet
AgentInit ==
    /\ IdleRegistry
    /\ IdleInvocation
    /\ IdleAgents
    /\ IdleExt

\* Construction of router r
BuildRouter(r) ==
    \/ \E agent \in Agents : RegisterAgent(r, agent)
    \/ \E threshold \in Thresholds : SetActivationThreshold(r, threshold)
    \/ ShareRouter(r)

RouterNext ==
    \/ \E r \in Routers : BuildRouter(r)
    \/ \E r \in Routers : SelectAgent(r)
    \/ \E r \in Routers, top_k \in 1..MaxTopK : SuggestAgents(r, top_k)

\* Routers built and asked for agents
RouterSpec == AgentInit /\ [][RouterNext]_vars

ExecutorNext ==
    \/ BuildRouter(1)
    \/ \E inp \in ExecInputs \cup { <<"/", "c", " ", "x", " ", "b", "=", "x">> },
          metadata \in AgentMetadata, rendered, ran \in BOOLEAN :
          ExecuteAgentCommand(1, inp, metadata, rendered, ran)
    \/ \E cmd \in ExecCommands : Register(cmd)
    \/ \E inp \in ExecInputs \cup { <<"/", "b", " ", "a", "=", "x">>, <<"/", "x", " ", "x">> },
          agent_executor \in BOOLEAN :
          execute_get(parse_invocation(inp), agent_executor)
    \/ \E rendered, ran \in BOOLEAN : execute(rendered, ran)

\* A command executor and an agent executor over one router and one registry
ExecutorSpec == AgentInit /\ [][ExecutorNext]_vars

LookupNext ==
    \/ \E cmd \in ExecCommands : Register(cmd)
    \/ ReloadNext("caller")
    \/ \E inp \in ExecInputs \cup { <<"/", "x", " ", "x">> } :
          execute_get(parse_invocation(inp), FALSE)
    \/ \E rendered \in BOOLEAN : execute(rendered, TRUE)

\* A command executor without agent support whose registry is registered
\* into and reloaded from its directory while it executes
LookupSpec == Init /\ [][LookupNext]_vars

\* AgentToolkit::new with the permissions it is given
ToolkitInit ==
    /\ IdleRegistry
    /\ IdleInvocation
    /\ IdleAgents
    /\ \E allow \in { <<>>, << <<"*", "*", "/", "*", ".", "r">> >>, << <<"*", "*">> >>,
                       << <<"*", ".", "t">>, <<"m">> >>,
                       << <<"s", "/", "*", "*">>, <<"*", "*", "/", "*">> >> },
          deny \in { <<>>, << <<"*", "*", "/", "k", "/", "*", "*">> >>, << <<"*">> >> },
          kind \in {"NoAccess", "ReadOnly", "ReadWrite"}, shell_execution \in BOOLEAN :
          /\ kind # "ReadWrite" => allow = <<>> /\ deny = <<>>
          /\ toolkit = [permissions |->
                          [file_access |-> [kind |-> kind, allow_patterns |-> allow,
                                            deny_patterns |-> deny],
                           shell_execution |-> shell_execution]]
    /\ world = [read |-> {}, written |-> {}, spawned |-> {}]
    /\ toolResult = [op |-> "none"]
    /\ executed = [called |-> FALSE]
    /\ activation = [made |-> FALSE, input |-> [nan |-> FALSE, tenths |-> 0]]
    /\ palette = NewPalette
    /\ keyResult = [called |-> FALSE]
    /\ slash = [called |-> FALSE, items |-> <<>>]

\* Calls on the toolkit, on src/main.rs, src/secrets/main.rs and notes.txt
ToolkitNext ==
    \/ \E path \in { <<"s", "/", "m", ".", "r">>, <<"s", "/", "k", "/", "m", ".", "r">>,
                      <<"n", ".", "t">> }, ioOk \in BOOLEAN :
          \/ read_file(path, ioOk)
          \/ write_file(path, ioOk)
    \/ \E ioOk \in BOOLEAN : execute_command(<<"l", "s">>, ioOk)

\* An agent toolkit in use
ToolkitSpec == ToolkitInit /\ [][ToolkitNext]_vars

\* A value is about to be made a score
ScoreInit ==
    /\ IdleRegistry
    /\ IdleInvocation
    /\ IdleAgents
    /\ toolkit = [permissions |->
                    [file_access |-> [kind |-> "NoAccess", allow_patterns |-> <<>>,
                                      deny_patterns |-> <<>>],
                     shell_execution |-> FALSE]]
    /\ world = [read |-> {}, written |-> {}, spawned |-> {}]
    /\ toolResult = [op |-> "none"]
    /\ executed = [called |-> FALSE]
    /\ activation \in { [made |-> FALSE, input |-> x] :
                    x \in { [nan |-> FALSE, tenths |-> t] : t \in (0 - MaxScore)..MaxScore }
                          \cup { [nan |-> TRUE, tenths |-> 0] } }
    /\ palette = NewPalette
    /\ keyResult = [called |-> FALSE]
    /\ slash = [called |-> FALSE, items |-> <<>>]

\* ActivationScore::new on every input
ScoreSpec == ScoreInit /\ [][NewScore]_vars

\* The palette is loaded, toggled and given keys
PaletteNext ==
    \/ \E commands_ \in { <<>>,
                          << [name |-> <<"a">>, description |-> <<"b">>] >>,
                          << [name |-> <<"a">>, description |-> <<"b">>],
                             [name |-> <<"b", "a">>, description |-> <<>>] >>,
                          << [name |-> <<"a">>, description |-> <<"b">>],
                             [name |-> <<"b", "a">>, description |-> <<>>],
                             [name |-> <<"b">>, description |-> <<>>] >> } :
          \E scores \in [1..Len(commands_) -> 1..MaxMatchScore] :
             load_commands(commands_, scores)
    \/ Toggle
    \/ \E key \in { [code |-> c, ch |-> "", modifiers |-> "NONE"] :
                      c \in {"Esc", "Enter", "Up", "Down", "Backspace", "Tab"} }
                  \cup { [code |-> "Char", ch |-> c, modifiers |-> m] :
                           c \in {"a", "b", "z"}, m \in {"NONE", "SHIFT", "CONTROL"} } :
          HandleKey(key)

\* A palette from CommandPalette::new on
PaletteSpec == AgentInit /\ [][PaletteNext]_vars

\* The input items handed over: up to MaxItems of a lone slash, a command,
\* a command after a blank, plain text and an image
SlashInit ==
    /\ IdleRegistry
    /\ IdleInvocation
    /\ IdleAgents
    /\ toolkit = [permissions |->
                    [file_access |-> [kind |-> "NoAccess", allow_patterns |-> <<>>,
                                      deny_patterns |-> <<>>],
                     shell_execution |-> FALSE]]
    /\ world = [read |-> {}, written |-> {}, spawned |-> {}]
    /\ toolResult = [op |-> "none"]
    /\ executed = [called |-> FALSE]
    /\ activation = [made |-> FALSE, input |-> [nan |-> FALSE, tenths |-> 0]]
    /\ palette = NewPalette
    /\ keyResult = [called |-> FALSE]
    /\ \E n \in 0..MaxItems :
          \E items \in [1..n -> { [kind |-> "Text", text |-> <<"/">>],
                                  [kind |-> "Text", text |-> <<"/", "b">>],
                                  [kind |-> "Text", text |-> <<" ", "/", "c">>],
                                  [kind |-> "Text", text |-> <<"h">>],
                                  [kind |-> "Image", text |-> <<>>] }] :
             slash = [called |-> FALSE, items |-> items]

\* detect_slash_command and replace_with_expanded_prompt on every input
SlashSpec == SlashInit /\ [][ReplaceSlashCommand]_vars

----------------------------------------------------------------------------
(* Properties *)

\* The .md files of directory d that are regular files and load
ValidFiles(d) ==
    { f \in Paths : f.ext = "md" /\ d[f].kind = "file" /\ load_command(d[f]) = "" }

\* The names the valid command files of directory d declare
ValidNames(d) == { d[f].name : f \in ValidFiles(d) }

\* reload() call p returns Ok in this step
ReturnsOk(p) == rl[p].pc = "insert" /\ rl'[p].pc = "idle" /\ rl'[p].result = "ok"

\* C1: whenever a reading task holds the read guard, the map is the complete map
\* the last finished write (reload or register) left, never the cleared or a
\* partly refilled one, and what get/list/filter_by_category return is computed
\* from that complete map.
C1_ReadsSeeWholeMap ==
    \A r \in Readers :
        /\ rd[r].pc \in {"locked", "read"} => commands = committed
        /\ rd[r].pc = "read" => rd[r].res = ReadResult(rd[r].op, committed)

\* C1 witness: a read returned a command while a reload() that has scanned the
\* directory is waiting for the write lock.
C1_Witness ==
    /\ rd["r1"].pc = "read"
    /\ rd["r1"].res # {}
    /\ rl["caller"].pc = "scan"
    /\ rl["caller"].listing = {}
    /\ rl["caller"].loaded # <<>>

\* C2: a reload() that returns Ok, the directory not having changed while it
\* ran, leaves the registry with exactly the names the valid .md files declare,
\* each mapped to a command one of those files declares.
C2_ReloadMatchesDirectory ==
    [][\A p \in Reloaders :
          (ReturnsOk(p) /\ ~rl[p].changed) =>
             /\ DOMAIN commands' = ValidNames(dir')
             /\ \A n \in DOMAIN commands' :
                   \E f \in ValidFiles(dir') : commands'[n] = UserCommand(dir'[f])]_vars

\* C2 witness: after a reload returned Ok the registry holds b, which was added,
\* with a's modified description, and not x, which had been registered.
C2_Witness ==
    /\ rl["caller"].pc = "idle"
    /\ rl["caller"].result = "ok"
    /\ ~rl["caller"].changed
    /\ DOMAIN commands = {<<"a">>, <<"b">>}
    /\ commands[<<"a">>].description = "d2"
    /\ DOMAIN commands = ValidNames(dir)

\* C10: a reload() whose scan is under way ends early only on a directory I/O
\* error, never on a file load_command rejects; and when it returns Ok with a
\* rejected .md file in the unchanged directory, every valid file is in the map.
C10_BadFileIsSkipped ==
    [][\A p \in Reloaders :
          /\ (rl[p].pc = "scan" /\ rl'[p].pc = "idle") => rl'[p].result = "io_error"
          /\ (ReturnsOk(p) /\ ~rl[p].changed
                /\ \E f \in Paths : f.ext = "md" /\ dir'[f] \in BadFiles)
             => \A f \in ValidFiles(dir') : dir'[f].name \in DOMAIN commands']_vars

\* C10 witness: a reload returned Ok with one rejected and one valid .md file
\* in the directory, and the valid one is in the registry.
C10_Witness ==
    /\ rl["caller"].pc = "idle"
    /\ rl["caller"].result = "ok"
    /\ ~rl["caller"].changed
    /\ dir[MdA] \in BadFiles
    /\ dir[MdB] \in GoodFiles
    /\ DOMAIN commands = {dir[MdB].name}

\* The paths whose pending entry has reached the debounce duration
Due == { f \in Paths : pending[f] # NoAge /\ pending[f] >= 300 }

\* The tick branch of the select! runs in this step
Sweeps == lag' < lag

\* C3: a sweep with an expired entry removes every expired entry, keeps the
\* others and calls registry.reload() once; a sweep without one changes nothing
\* and calls no reload.
C3_OneReloadPerSweep ==
    [][Sweeps =>
         /\ \A f \in Paths : pending'[f] = IF f \in Due THEN NoAge ELSE pending[f]
         /\ Due # {} => /\ rl["watcher"].pc = "idle"
                        /\ rl'["watcher"].pc = "called"
                        /\ wpc' = "reloading"
                        /\ hist'.reloads = Min(hist.reloads + 1, ReloadCap)
         /\ Due = {} => /\ rl' = rl
                        /\ wpc' = "select"
                        /\ hist'.reloads = hist.reloads]_vars

\* C3 witness: the first reload ever has just been called by a sweep that
\* removed the entries of two changed paths.
C3_Witness ==
    /\ rl["watcher"].pc = "called"
    /\ hist.reloads = 1
    /\ hist.dirty = MdPaths
    /\ eventQ = <<>>
    /\ \A f \in Paths : pending[f] = NoAge

\* C4: as long as every event received so far came within one debounce window
\* of the first one, each on a path of its own, the watcher has called reload()
\* at most once in total.
C4_BurstYieldsOneReload == hist.oneBurst => hist.reloads <= 1

\* C5: whenever the watcher calls reload(), the most recent relevant event was
\* received at least one debounce window earlier.
C5_ReloadOnlyAfterIdleWindow ==
    rl["watcher"].pc = "called" => hist.lastEvt >= DEBOUNCE_MS

\* C6 as claimed: every change of a .md file is, while the handle is alive,
\* eventually covered by a watcher reload that scanned after it and returned Ok.
C6_ChangeEventuallyLoaded ==
    \A f \in MdPaths : (f \in hist.stale) ~> (f \notin hist.stale \/ ~alive)

\* C6 amended: every change of a .md file is, while the handle is alive,
\* eventually followed by a watcher reload that starts its scan after the change
\* and finishes; when that reload returns Ok, every .md file unchanged since the
\* scan began is reflected: its name is in the registry if it is valid, and no
\* name is left that no current valid file declares.
C6_ChangeEventuallyReloaded ==
    /\ \A f \in MdPaths : (f \in hist.dirty) ~> (f \notin hist.dirty \/ ~alive)
    /\ [][ReturnsOk("watcher") =>
            /\ hist'.stale = hist.during
            /\ \A f \in ValidFiles(dir') \ hist.during : dir'[f].name \in DOMAIN commands'
            /\ hist.during = {} =>
                 /\ DOMAIN commands' = ValidNames(dir')
                 /\ \A n \in DOMAIN commands' :
                       \E f \in ValidFiles(dir') : commands'[n] = UserCommand(dir'[f])]_vars

\* C6 witness: a watcher reload has returned Ok and the registry holds the
\* created command b and the modified description of a; nothing is stale.
C6_Witness ==
    /\ alive
    /\ rl["watcher"].result = "ok"
    /\ wpc = "select"
    /\ hist.stale = {}
    /\ hist.reloads >= 1
    /\ DOMAIN commands = {<<"a">>, <<"b">>}
    /\ commands[<<"a">>].description = "d2"

\* C7: once the handle is dropped the background task eventually terminates;
\* a terminated task stays terminated, calls no reload and changes neither the
\* registry nor the (discarded) pending set.
C7_DropStopsWatcher ==
    /\ (~alive) ~> (wpc = "done")
    /\ [][wpc = "done" =>
            /\ wpc' = "done"
            /\ rl' = rl
            /\ commands' = commands
            /\ hist'.reloads = hist.reloads
            /\ pending' = [f \in Paths |-> NoAge]]_vars

\* C7 witness: the task has terminated less than a debounce window after it
\* received an event, whose entry can not have expired, and no reload was called.
C7_Witness ==
    /\ wpc = "done"
    /\ hist.lastEvt # NoAge
    /\ hist.lastEvt < DEBOUNCE_MS
    /\ hist.reloads = 0
    /\ hist.stale # {}

\* The watcher's reload() returns Err in this step
WatcherReloadFails ==
    /\ rl["watcher"].pc \in {"called", "scan"}
    /\ rl'["watcher"].pc = "idle"
    /\ rl'["watcher"].result # "ok"

\* C8: a watcher reload that fails never touched the map, which is still the
\* one the last completed write left, and the loop is back at its select!.
C8_FailedReloadKeepsMap ==
    /\ [][WatcherReloadFails =>
            /\ commands' = commands
            /\ committed' = committed
            /\ commands' = committed'
            /\ lockWriter' = NoProc
            /\ wpc' = "select"]_vars
    /\ [][rl["watcher"].pc \in {"called", "scan"} /\ lockWriter = NoProc
            => commands' = commands]_vars

\* C8 witness: after a failed reload the registry still holds a command whose
\* file is gone, the loop is at its select! and has stamped a later event.
C8_Witness ==
    /\ rl["watcher"].result = "io_error"
    /\ wpc = "select"
    /\ hist.reloads >= 1
    /\ DOMAIN commands = {<<"a">>}
    /\ ValidNames(dir) = {}
    /\ \E f \in Paths : pending[f] = 0

\* C9: the event channel only carries Create, Modify and Remove events naming a
\* .md path, the pending set only holds .md paths, and as long as no such event
\* was received no reload has been called.
C9_OnlyCommandFileEvents ==
    /\ \A i \in 1..Len(eventQ) :
          /\ eventQ[i].kind \in {"Create", "Modify", "Remove"}
          /\ \E f \in eventQ[i].paths : f.ext = "md"
    /\ \A f \in Paths : pending[f] # NoAge => f.ext = "md"
    /\ hist.first = NoAge => hist.reloads = 0 /\ rl["watcher"].pc = "idle"

\* C9 witness: readme.txt was written and an Access event on a.md was raised
\* under a live watcher, and nothing reached the channel or the pending set.
C9_Witness ==
    /\ alive
    /\ fsBudget = 0
    /\ dir[Txt].kind = "file"
    /\ \A f \in MdPaths : dir[f].kind = "absent"
    /\ eventQ = <<>>
    /\ hist.first = NoAge
    /\ \A f \in Paths : pending[f] = NoAge

----------------------------------------------------------------------------
(* Properties of the invocation parser and the argument mapper *)

\* The parameters map_arguments was given
Defs == mapped.metadata.args

\* Parameter name n receives a value from the positional or the named
\* arguments of the invocation
Supplied(n) ==
    \/ n \in DOMAIN invocation.args
    \/ \E j \in 1..Len(Defs) : j <= Len(invocation.raw_args) /\ Defs[j].name = n

\* C11: when map_arguments returns Ok, every parameter that has a positional
\* value (its position is within raw_args) and a named key=value maps to the
\* named value, wherever the named token stood in the input string.
C11_NamedOverridesPositional ==
    mapped.result.err = "" =>
        \A i \in 1..Len(Defs) :
            (i <= Len(invocation.raw_args) /\ Defs[i].name \in DOMAIN invocation.args)
                => mapped.result.result[Defs[i].name] = invocation.args[Defs[i].name]

\* "/c b=9 x" mapped to the schema (b, a): b has the positional value x and
\* the named value 9, the named token first, and the result holds 9
C11_Witness ==
    /\ input = <<"/", "c", " ", "b", "=", "9", " ", "x">>
    /\ mapped.result.err = ""
    /\ Len(Defs) = 2 /\ Defs[1].name = <<"b">>
    /\ invocation.raw_args = << <<"x">> >>
    /\ mapped.result.result[<<"b">>] = <<"9">>

\* C12 (as stated): a required parameter without default that gets no value
\* makes map_arguments fail with the missing-required error naming that
\* parameter and the command.
C12_MissingRequiredNamesParameter ==
    mapped # NotMapped =>
        \A i \in 1..Len(Defs) :
            (Defs[i].required /\ ~Defs[i].default.some /\ ~Supplied(Defs[i].name))
                => /\ mapped.result.err = "Required argument missing"
                   /\ mapped.result.arg = Defs[i].name
                   /\ mapped.result.command = mapped.metadata.name

\* The required parameters that get no value and whose name has no default
\* in any declaration
Unfilled ==
    { i \in 1..Len(Defs) :
        /\ Defs[i].required
        /\ ~Supplied(Defs[i].name)
        /\ \A j \in 1..Len(Defs) : Defs[j].name = Defs[i].name => ~Defs[j].default.some }

\* The named arguments the command does not declare
Undeclared ==
    { k \in DOMAIN invocation.args : \A j \in 1..Len(Defs) : Defs[j].name # k }

\* C12 (amended): when a required parameter gets no value and no declaration
\* of its name has a default, map_arguments fails: with the unknown-argument
\* error naming an undeclared named argument if there is one, otherwise with
\* the missing-required error naming the command and the first such
\* parameter in declaration order.
C12_MissingRequiredFails ==
    (mapped # NotMapped /\ Unfilled # {}) =>
        IF Undeclared # {}
        THEN /\ mapped.result.err = "Unknown argument"
             /\ mapped.result.arg \in Undeclared
             /\ mapped.result.command = mapped.metadata.name
        ELSE /\ mapped.result.err = "Required argument missing"
             /\ \E i \in Unfilled :
                   /\ \A j \in Unfilled : i <= j
                   /\ mapped.result.arg = Defs[i].name
             /\ mapped.result.command = mapped.metadata.name

\* "/c x" on (a with default, b required): a has a value, b is missing
C12_Witness ==
    /\ invocation.raw_args = << <<"x">> >>
    /\ invocation.args = EmptyMap
    /\ Len(Defs) = 2 /\ Defs[1].default.some /\ Defs[2].required
    /\ mapped.result.err = "Required argument missing"
    /\ mapped.result.arg = <<"b">>
    /\ mapped.result.command = <<"c">>

\* The characters of the slash-command syntax, read from the input itself:
\* each token as the sequence of its characters, each marked plain when it
\* was neither backslash-escaped nor inside double quotes
MarkStart == [tokens |-> <<>>, cur |-> <<>>, quoted |-> FALSE, escaped |-> FALSE]

MarkChar(st, ch) ==
    IF st.escaped
    THEN [st EXCEPT !.cur = Append(@, [ch |-> ch, plain |-> FALSE]),
                    !.escaped = FALSE]
    ELSE IF ch = "\\" THEN [st EXCEPT !.escaped = TRUE]
    ELSE IF ch = "\"" THEN [st EXCEPT !.quoted = ~@]
    ELSE IF ch = " " /\ ~st.quoted
         THEN IF st.cur = <<>> THEN st
              ELSE [st EXCEPT !.tokens = Append(@, st.cur), !.cur = <<>>]
    ELSE [st EXCEPT !.cur = Append(@, [ch |-> ch, plain |-> ~st.quoted])]

RECURSIVE MarkScan(_, _, _)
MarkScan(chars, i, st) ==
    IF i > Len(chars) THEN st ELSE MarkScan(chars, i + 1, MarkChar(st, chars[i]))

RECURSIVE SkipBlanks(_)
SkipBlanks(chars) ==
    IF chars # <<>> /\ Head(chars) = " " THEN SkipBlanks(Tail(chars)) ELSE chars

\* The input is a slash command: blanks, then a slash
IsSlashCommand == SkipBlanks(input) # <<>> /\ Head(SkipBlanks(input)) = "/"

\* The scan of what follows the slash
Scanned ==
    MarkScan(IF IsSlashCommand THEN Tail(SkipBlanks(input)) ELSE <<>>, 1, MarkStart)

\* The marked tokens after the slash; the first is the command name
MarkedTokens ==
    IF Scanned.cur = <<>> THEN Scanned.tokens ELSE Append(Scanned.tokens, Scanned.cur)

\* The text of a marked token
Text(t) == [p \in 1..Len(t) |-> t[p].ch]

\* C13 (as stated): a token becomes a named argument only if it holds an
\* unescaped '=' outside double quotes with the key to its left; a token whose
\* '=' are all escaped or quoted is appended to raw_args.
C13_NamedNeedsPlainEquals ==
    invocation.err = "" =>
        /\ \A k \in DOMAIN invocation.args :
              \E i \in 2..Len(MarkedTokens) :
                 \E p \in 2..Len(MarkedTokens[i]) :
                    /\ MarkedTokens[i][p] = [ch |-> "=", plain |-> TRUE]
                    /\ SubSeq(Text(MarkedTokens[i]), 1, p - 1) = k
        /\ \A i \in 2..Len(MarkedTokens) :
              (\A p \in 1..Len(MarkedTokens[i]) :
                  MarkedTokens[i][p].ch = "=" => ~MarkedTokens[i][p].plain)
              => \E j \in 1..Len(invocation.raw_args) :
                    invocation.raw_args[j] = Text(MarkedTokens[i])

\* The first position of '=' in text t, 0 when it has none
FirstEquals(t) ==
    IF \A p \in 1..Len(t) : t[p] # "=" THEN 0
    ELSE CHOOSE p \in 1..Len(t) : t[p] = "=" /\ \A q \in 1..(p - 1) : t[q] # "="

\* C14 (as stated): the key of a named argument is the text before the first
\* '=' of its token and its value is everything after it, verbatim as
\* tokenized, further '=' and quoted or escaped whitespace included.
C14_ValueIsVerbatim ==
    invocation.err = "" =>
        \A k \in DOMAIN invocation.args :
            \E i \in 2..Len(MarkedTokens) :
                LET t == Text(MarkedTokens[i])
                    p == FirstEquals(t)
                IN  /\ p # 0
                    /\ SubSeq(t, 1, p - 1) = k
                    /\ SubSeq(t, p + 1, Len(t)) = invocation.args[k]

\* C15 (as stated): for a slash command, parse fails with the
\* unclosed-quotes error when the input ends inside double quotes, with the
\* trailing-escape error when it ends (outside quotes) with a backslash that
\* escapes nothing, and with neither of the two for every other input.
C15_QuoteAndEscapeErrors ==
    (invocation # NotParsed /\ IsSlashCommand) =>
        /\ Scanned.quoted => invocation.err = "Unclosed quotes in command"
        /\ (Scanned.escaped /\ ~Scanned.quoted)
              => invocation.err = "Trailing escape character"
        /\ (~Scanned.escaped /\ ~Scanned.quoted)
              => invocation.err \notin {"Unclosed quotes in command",
                                        "Trailing escape character"}

\* The characters of [A-Za-z0-9_-] among those of the model
AsciiNameChars == {"a", "b", "c", "x", "0", "9", "-", "_"}

\* C16 (as stated): a returned invocation has a non-empty command_name over
\* [A-Za-z0-9_-]; when tokenization succeeds and the first token holds any
\* other character, parse fails with the invalid-command-name error.
C16_CommandNameIsAscii ==
    (invocation # NotParsed /\ IsSlashCommand) =>
        /\ invocation.err = "" =>
              /\ invocation.command_name # <<>>
              /\ \A i \in 1..Len(invocation.command_name) :
                    invocation.command_name[i] \in AsciiNameChars
        /\ ( /\ ~Scanned.quoted /\ ~Scanned.escaped
             /\ MarkedTokens # <<>>
             /\ \E p \in 1..Len(MarkedTokens[1]) :
                   MarkedTokens[1][p].ch \notin AsciiNameChars )
              => invocation.err = "Invalid command name"

----------------------------------------------------------------------------
(* Properties of the agent router and the agent command executor *)

\* The highest score among the agents of router r
BestScore(r) ==
    CHOOSE s \in { routers[r].agents[a].score : a \in DOMAIN routers[r].agents } :
        \A a \in DOMAIN routers[r].agents : routers[r].agents[a].score <= s

C18_SelectionIsDeterministic ==
    ( /\ routers[1].agents = routers[2].agents
      /\ routers[1].activation_threshold = routers[2].activation_threshold )
    => /\ (selection[1].select.called /\ selection[2].select.called)
             => selection[1].select.selected = selection[2].select.selected
       /\ ( /\ selection[1].suggest.called /\ selection[2].suggest.called
            /\ selection[1].suggest.top_k = selection[2].suggest.top_k )
             => selection[1].suggest.suggestions = selection[2].suggest.suggestions

\* C19 (as stated): with an agent_id that is not registered, a command whose
\* task was built fails with the agent-not-found error and no agent runs.
C19_UnregisteredAgentIdFails ==
    ( /\ execution.called /\ execution.built
      /\ execution.agent_id.some
      /\ execution.agent_id.val \notin DOMAIN routers[execution.router].agents )
    => /\ execution.err = "Agent not found or not available"
       /\ ~execution.agent.some

\* C20 (as stated): with an agent_id that is registered, a command whose
\* task was built is executed by the agent with that id.
C20_ExplicitAgentIdIsUsed ==
    ( /\ execution.called /\ execution.built
      /\ execution.agent_id.some
      /\ execution.agent_id.val \in DOMAIN routers[execution.router].agents )
    => execution.agent = execution.agent_id

----------------------------------------------------------------------------
(* Agent toolkit *)

\* The path of the last toolkit call matches one of the patterns
MatchesAny(patterns) ==
    \E i \in DOMAIN patterns : matches(toolResult.target, patterns[i])

\* The last toolkit call was refused by its permission check
Denied(result) ==
    result.err \in { "Permission denied: cannot read",
                     "Permission denied: cannot write to",
                     "Permission denied: shell execution not allowed" }

\* C21: a write_file call passes the permission check only when the policy
\* is ReadWrite and the path matches at least one allow pattern and no deny
\* pattern, so that a deny match wins over an allow match; under NoAccess
\* and under ReadOnly every write_file call fails with PermissionDenied.
C21_WriteNeedsAllowAndNoDeny ==
    toolResult.op = "write_file" =>
        LET policy == toolkit.permissions.file_access
        IN  /\ ~Denied(toolResult) =>
                  /\ policy.kind = "ReadWrite"
                  /\ MatchesAny(policy.allow_patterns)
                  /\ ~MatchesAny(policy.deny_patterns)
            /\ policy.kind \in {"NoAccess", "ReadOnly"} =>
                  toolResult.err = "Permission denied: cannot write to"

\* A write was refused although an allow pattern matches its path, because
\* a deny pattern matches it too, after another write had been let through
C21_Witness ==
    /\ toolResult.op = "write_file"
    /\ Denied(toolResult)
    /\ MatchesAny(toolkit.permissions.file_access.allow_patterns)
    /\ MatchesAny(toolkit.permissions.file_access.deny_patterns)
    /\ world.written # {}

\* C22: a read_file call passes the permission check if and only if the
\* policy is not NoAccess and, under a ReadWrite policy, the path matches an
\* allow pattern and no deny pattern: a path matching a deny pattern cannot
\* be read.
C22_ReadRespectsPatterns ==
    toolResult.op = "read_file" =>
        LET policy == toolkit.permissions.file_access
        IN  ~Denied(toolResult) <=>
                /\ policy.kind # "NoAccess"
                /\ policy.kind = "ReadWrite" =>
                      /\ MatchesAny(policy.allow_patterns)
                      /\ ~MatchesAny(policy.deny_patterns)

\* C23: in read_file, write_file and execute_command the permission check
\* precedes every effect: a call that returns PermissionDenied has read no
\* file, written no file and spawned no process, and execute_command is
\* refused whenever shell_execution is false.
C23_CheckPrecedesEffect ==
    [][ /\ Denied(toolResult') => world' = world
        /\ (toolResult'.op = "execute_command" /\ ~toolkit.permissions.shell_execution)
              => /\ Denied(toolResult')
                 /\ world'.spawned = world.spawned
        /\ (toolResult'.op = "write_file"
            /\ toolkit.permissions.file_access.kind # "ReadWrite")
              => Denied(toolResult')
        /\ (toolResult'.op = "read_file"
            /\ toolkit.permissions.file_access.kind = "NoAccess")
              => Denied(toolResult') ]_vars

\* A command was refused by a toolkit that had read and written files
C23_Witness ==
    /\ toolResult.op = "execute_command"
    /\ Denied(toolResult)
    /\ world.read # {}
    /\ world.written # {}
    /\ world.spawned = {}

----------------------------------------------------------------------------
(* Command executor *)

\* execute() is past its lookup and holds the command get() returned
Holding == ~executed.called /\ executed # [called |-> FALSE]

\* The command execute() has looked up: the copy it holds
LookedUp == executed.command

\* C24: execute() never adds, removes or replaces a registry entry, whether
\* it succeeds or fails; executing a name that is absent from the registry
\* returns CommandNotFound, maps no argument, expands no template, calls no
\* agent and leaves the registry unchanged.
C24_ExecuteLeavesRegistry ==
    [][ executed' # executed =>
          /\ commands' = commands
          /\ ( /\ ~Holding
               /\ executed'.invocation.command_name \notin DOMAIN commands ) =>
                /\ executed'.called
                /\ executed'.err = "Command not found"
                /\ ~executed'.mapped
                /\ ~executed'.expanded
                /\ execution' = execution ]_vars

\* A name was executed that a registry holding other commands does not hold
C24_Witness ==
    /\ executed.called
    /\ executed.err = "Command not found"
    /\ commands # EmptyMap
    /\ executed.invocation.command_name \notin DOMAIN commands

\* C25: execute() takes the agent path exactly when the user command it
\* looked up has metadata.agent = true: a command with agent = false goes to
\* the argument mapper and the template expander and never reaches the agent
\* executor, even when one is configured; a command with agent = true is
\* never expanded as a template, reaches the agent executor when one is
\* configured and fails when none is.
C25_AgentFlagPicksPath ==
    [][ ( /\ executed' # executed
          /\ Holding
          /\ LookedUp.user ) =>
          IF LookedUp.agent
          THEN /\ ~executed'.mapped
               /\ ~executed'.expanded
               /\ IF executed'.agent_executor
                  THEN /\ execution'.called
                       /\ execution'.agent_id = LookedUp.metadata.agent_id
                       /\ executed'.err = "" <=> execution'.err = ""
                  ELSE /\ execution' = execution
                       /\ executed'.err =
                            "requires agent support, but no agent executor is configured"
          ELSE /\ execution' = execution
               /\ executed'.mapped
               /\ executed'.err = "" => executed'.expanded ]_vars

\* A plain command was expanded by an executor that has an agent executor,
\* and no agent was called
C25_Witness ==
    /\ executed.called
    /\ executed.agent_executor
    /\ executed.expanded
    /\ executed.err = ""
    /\ ~execution.called
    /\ executed.invocation.command_name \in DOMAIN commands
    /\ ~commands[executed.invocation.command_name].agent

----------------------------------------------------------------------------
(* Loaded metadata *)

\* C26: every command that reload() places in the registry has metadata
\* that passed validation: a non-empty name made only of alphanumerics, '-'
\* or '_', a non-empty description, a non-empty category, and no argument
\* that is both required and has a default.
C26_ReloadedMetadataIsValid ==
    [][\A p \in Reloaders :
          rl[p].pc = "insert" =>
             \A n \in DOMAIN commands' :
                (n \notin DOMAIN commands \/ commands'[n] # commands[n]) =>
                   /\ commands'[n].name = n
                   /\ n # <<>>
                   /\ \A i \in 1..Len(n) : n[i] \in Alphanumeric \cup {"-", "_"}
                   /\ commands'[n].description # ""
                   /\ commands'[n].category # ""
                   /\ \A i \in 1..Len(commands'[n].args) :
                         ~(commands'[n].args[i].required
                           /\ commands'[n].args[i].hasDefault)]_vars

\* A reload is placing a command in the registry while the directory holds
\* a file with an empty description and a file with an empty category
C26_Witness ==
    /\ rl["caller"].pc = "insert"
    /\ commands # EmptyMap
    /\ \E f \in MdPaths : dir[f].kind = "file" /\ dir[f].description = ""
    /\ \E f \in MdPaths : dir[f].kind = "file" /\ dir[f].category = ""

----------------------------------------------------------------------------
(* Activation score *)

\* C27: ActivationScore::new(x) is x clamped to [0.0, 1.0] for every input
\* x: 0.0 when x < 0, 1.0 when x > 1, and x itself otherwise (NaN, which is
\* neither below 0 nor above 1, included).
C27_NewClampsToUnitInterval ==
    activation.made =>
        LET x == activation.input
        IN  IF ~x.nan /\ x.tenths < 0
            THEN activation.value = [nan |-> FALSE, tenths |-> 0]
            ELSE IF ~x.nan /\ x.tenths > 10
            THEN activation.value = [nan |-> FALSE, tenths |-> 10]
            ELSE activation.value = x

\* A score was made from a value above 1.0
C27_Witness ==
    /\ activation.made
    /\ ~activation.input.nan
    /\ activation.input.tenths > 10
    /\ activation.value.tenths = 10

----------------------------------------------------------------------------
(* Pending reloads *)

\* The watcher's loop takes an event from the channel in this step
Receives == wpc = "select" /\ eventQ # <<>> /\ eventQ' = Tail(eventQ)

\* The sweep of this step is followed by a call of registry.reload()
IssuesReload == wpc = "select" /\ wpc' = "reloading"

\* C28: the pending set is a map keyed by path, so it holds at most one
\* timestamp per path; each received event resets the timestamp of every
\* command file path it names to the time the loop receives it; and while
\* the loop runs a path's entry is removed only by a sweep (a tick) at which
\* at least one debounce window has elapsed since the most recent event
\* received for that path.
C28_EntryLivesOneWindow ==
    [][\A f \in Paths :
          /\ (Receives /\ f \in Head(eventQ).paths /\ f.ext = "md") => pending'[f] = 0
          /\ (pending[f] # NoAge /\ pending'[f] = NoAge /\ wpc' # "done") =>
                /\ wpc = "select"
                /\ lag >= 0
                /\ lag' = lag - TICK_MS
                /\ pending[f] >= DEBOUNCE_MS
          /\ (pending[f] # NoAge /\ pending'[f] # NoAge /\ pending'[f] < pending[f]) =>
                Receives /\ f \in Head(eventQ).paths]_vars

\* A second event for a.md has just been received while a.md was pending:
\* its entry is fresh again and no sweep has removed anything yet
C28_Witness ==
    /\ wpc = "select"
    /\ pending[MdA] = 0
    /\ pending[MdB] = NoAge
    /\ hist.first > 0
    /\ hist.lastEvt = 0
    /\ hist.reloads = 0

\* C29: a failed watcher-triggered reload is not retried: the sweep removes
\* the paths that trigger a reload before the reload is called and nothing
\* puts a path back while the reload runs, and after a failed reload the
\* watcher issues no further reload until a new event has been received
\* (and its debounce window has elapsed).
C29_FailedReloadNotRetried ==
    [][ /\ IssuesReload =>
              \A f \in Paths : pending[f] >= DEBOUNCE_MS => pending'[f] = NoAge
        /\ wpc = "reloading" =>
              \A f \in Paths : pending[f] = NoAge => pending'[f] = NoAge
        /\ IssuesReload => ~hist.failed ]_vars

----------------------------------------------------------------------------
(* Positional binding *)

\* The positions of the positional tokens that have a declared parameter
Bound == 1..Min(Len(invocation.raw_args), Len(Defs))

\* C30: the i-th positional token is bound to the i-th declared parameter,
\* in declaration order, even when that parameter is also supplied by name
\* (the named value then replaces it, and the token is not passed on to
\* another parameter; a later token bound to a parameter of the same name
\* replaces an earlier one); positional tokens beyond the number of declared
\* parameters are dropped without error, so that every key of a successful
\* result is a declared parameter name.
C30_PositionalByDeclarationOrder ==
    mapped # NotMapped =>
        LET result == mapped.result.result
        IN  /\ mapped.result.err = "" =>
                 /\ \A k \in DOMAIN result : \E j \in 1..Len(Defs) : Defs[j].name = k
                 /\ \A i \in Bound :
                       /\ Defs[i].name \in DOMAIN result
                       /\ ( /\ Defs[i].name \notin DOMAIN invocation.args
                            /\ \A j \in Bound : j > i => Defs[j].name # Defs[i].name )
                             => result[Defs[i].name] = invocation.raw_args[i]
                 /\ \A k \in DOMAIN result :
                       ( /\ k \notin DOMAIN invocation.args
                         /\ \A i \in Bound : Defs[i].name # k )
                          => \E j \in 1..Len(Defs) :
                                /\ Defs[j].name = k
                                /\ Defs[j].default.some
                                /\ result[k] = Defs[j].default.val
            /\ mapped.result.err # "" => Undeclared # {} \/ Unfilled # {}

\* One positional token on a schema of two optional parameters, the first of
\* which is also supplied by name: the second parameter stays without a value
C30_Witness ==
    /\ mapped # NotMapped
    /\ mapped.result.err = ""
    /\ Len(Defs) = 2
    /\ Len(invocation.raw_args) = 1
    /\ Defs[1].name \in DOMAIN invocation.args
    /\ Defs[2].name \notin DOMAIN mapped.result.result

----------------------------------------------------------------------------
(* C31: register(c) touches the entry of c.name() only *)

\* A step of register(): the map changes while no reload() holds the write
\* guard (reload() changes the map only between taking and dropping it)
RegisterStep == lockWriter = NoProc /\ commands' # commands

\* C31: register(c) inserts or overwrites exactly the entry for c.name()
\* without scanning the directory: afterwards the map holds c under c.name(),
\* every other name maps to the same command as before the call (or to none,
\* as before), and neither the directory nor a directory scan was touched.
C31_RegisterTouchesOneEntry ==
    [][RegisterStep =>
          /\ \E c \in RegisterCmds :
                /\ c.name \in DOMAIN commands'
                /\ commands'[c.name] = c
                /\ DOMAIN commands' = DOMAIN commands \cup {c.name}
                /\ \A n \in DOMAIN commands \ {c.name} : commands'[n] = commands[n]
          /\ dir' = dir
          /\ rl' = rl]_vars

\* register() has added the command "x", which no file declares, next to the
\* command "a" that a reload had loaded and that is still as it was loaded
C31_Witness ==
    /\ <<"x">> \in DOMAIN commands
    /\ <<"a">> \in DOMAIN commands
    /\ commands[<<"a">>].description = "d1"
    /\ lockWriter = NoProc

----------------------------------------------------------------------------
(* C32: the command get() returned is a copy *)

\* C32: a command returned by get() is an independent copy: what execute()
\* holds after its lookup is the command the registry stored at the lookup,
\* a later reload() or register() that replaces or removes that name leaves
\* the held copy as it was, and execute() finishes against the copy: the
\* path it takes (agent support required, or argument mapping and template
\* expansion) is the one of the copy, whatever the registry holds by then.
C32_HeldCopyIsIndependent ==
    [][ /\ (~Holding /\ Holding') =>
             executed'.command = commands[executed'.invocation.command_name]
        /\ (Holding /\ commands' # commands) => executed' = executed
        /\ (Holding /\ executed' # executed) =>
             /\ executed'.called
             /\ executed'.command = executed.command
             /\ executed'.invocation = executed.invocation
             /\ IF executed.command.user /\ executed.command.agent
                THEN /\ ~executed'.mapped
                     /\ ~executed'.agent_executor =>
                          executed'.err =
                            "requires agent support, but no agent executor is configured"
                ELSE /\ executed'.mapped
                     /\ executed'.err = "" => executed'.expanded ]_vars

\* execute() looked up a plain command, a reload() of the directory, which
\* has no file for it, then removed it from the registry, and execute() returned the prompt
\* expanded from the copy
C32_Witness ==
    /\ executed.called
    /\ executed.found
    /\ ~executed.command.agent
    /\ executed.expanded
    /\ executed.err = ""
    /\ ~executed.stored.some
    /\ rl["caller"].result = "ok"

----------------------------------------------------------------------------
(* C33: an agent command maps its arguments before it selects an agent *)

\* The invocation of the agent call that has just returned names an argument
\* its command does not declare, or leaves a required parameter without a
\* value: no token at its position and no named argument of its name
MappingFails ==
    LET inv == execution'.invocation
        args == execution'.metadata.args
    IN  \/ \E k \in DOMAIN inv.args : \A i \in 1..Len(args) : args[i].name # k
        \/ \E i \in 1..Len(args) :
              /\ args[i].required
              /\ i > Len(inv.raw_args)
              /\ args[i].name \notin DOMAIN inv.args

\* C33: for an agent-backed command, argument mapping and validation run
\* before agent selection: if mapping fails (unknown named argument or
\* missing required argument) the call fails building the task, the router
\* is not consulted, no agent is executed, and the router is left as it
\* was.
C33_MappingPrecedesSelection ==
    [][ (execution' # execution /\ MappingFails) =>
          /\ execution'.err = "Failed to build agent task"
          /\ ~execution'.built
          /\ ~execution'.consulted
          /\ ~execution'.agent.some
          /\ routers' = routers
          /\ selection' = selection ]_vars

\* An invocation with an undeclared named argument was given to a router
\* that holds an agent scoring above its threshold, and no agent was chosen
C33_Witness ==
    /\ execution.called
    /\ <<"b">> \in DOMAIN execution.invocation.args
    /\ execution.invocation.raw_args # <<>>
    /\ ~execution.consulted
    /\ select_agent(routers[execution.router]).some

----------------------------------------------------------------------------
(* C35 and C36: overlapping reloads and registered commands *)

\* The registry holds exactly what the command files of the directory declare
MatchesDirectory ==
    /\ DOMAIN commands = ValidNames(dir)
    /\ \A n \in DOMAIN commands :
          \E f \in ValidFiles(dir) : commands[n] = UserCommand(dir[f])

\* C35: if two reload() calls overlap, the registry afterwards holds the
\* result of the later directory scan: when a reload() returns Ok and a
\* watcher-triggered reload whose scan began after the last change of a command
\* file has returned Ok (this reload or an earlier one), the registry holds
\* what the directory holds, not the result of a scan taken before the change.
C35_LaterScanWins ==
    [][\A p \in Reloaders :
          (ReturnsOk(p) /\ hist'.stale = {}) => MatchesDirectory']_vars

\* The commands a file of the model's directories can declare
FileCommands == { UserCommand(c) : c \in GoodFiles \cup BadFiles }

\* C36: after any reload() returns Ok the registry contains only commands
\* loaded from the directory: every entry is a command a file declares, and a
\* command added before with register() that no file declares (x) is gone,
\* whether the reload was called directly or by the watcher.
C36_ReloadDropsRegistered ==
    [][\A p \in Reloaders :
          ReturnsOk(p) =>
             /\ <<"x">> \notin DOMAIN commands'
             /\ \A n \in DOMAIN commands' : commands'[n] \in FileCommands]_vars

\* A watcher-triggered reload is about to return Ok: the map it found held the
\* registered command x, and the map it leaves holds a.md's command only
C36_Witness ==
    /\ rl["watcher"].pc = "insert"
    /\ rl["watcher"].loaded = <<>>
    /\ <<"x">> \in DOMAIN committed
    /\ DOMAIN commands = {<<"a">>}

----------------------------------------------------------------------------
(* C37 and C38: the watcher while its reload runs *)

\* An event naming the path f waits in the event channel
QueuedFor(f) == \E i \in 1..Len(eventQ) : f \in eventQ[i].paths

\* The loop has just received the last queued event of f and stamped f
Stamped(f) == wpc = "select" /\ ~QueuedFor(f) /\ pending[f] = 0

\* C37: a relevant file event that arrives while the watcher's reload is in
\* progress is not lost: as long as the reload runs, the channel keeps what
\* it holds and no path is stamped or swept; unless the watcher is dropped first, the
\* event is then received and its path stamped, and the stamp is swept by a
\* tick that calls reload() again, not before a debounce window has passed.
C37_EventDuringReloadKept ==
    /\ [][wpc = "reloading" =>
            /\ \A f \in Paths : /\ pending'[f] = 0 => pending[f] = 0
                                /\ pending'[f] = NoAge <=> pending[f] = NoAge
            /\ Len(eventQ') >= Len(eventQ)
            /\ SubSeq(eventQ', 1, Len(eventQ)) = eventQ]_vars
    /\ \A f \in MdPaths :
          (wpc = "reloading" /\ QueuedFor(f)) ~> (~alive \/ Stamped(f))
    /\ \A f \in MdPaths :
          Stamped(f) ~> (~alive \/ (wpc = "reloading" /\ pending[f] = NoAge))
    /\ [][\A f \in MdPaths :
            (pending[f] # NoAge /\ pending'[f] = NoAge /\ wpc' = "reloading") =>
               pending[f] >= DEBOUNCE_MS]_vars

\* While the watcher's reload scans the directory, b.md has changed and its
\* event waits in the channel
C37_Witness ==
    /\ alive
    /\ wpc = "reloading"
    /\ rl["watcher"].pc = "scan"
    /\ MdB \in hist.during
    /\ QueuedFor(MdB)

\* C38: the watcher task never has more than one of its own reload() calls
\* in flight: a reload of the watcher runs only while the loop is inside its
\* tick branch, the tick branch calls reload() only when none of its calls is
\* running, and until that call has returned no event is received or
\* stamped, no sweep runs, no further reload is called and shutdown is not
\* observed.
C38_OneWatcherReloadInFlight ==
    /\ [](rl["watcher"].pc # "idle" => wpc = "reloading")
    /\ [][(rl'["watcher"].pc = "called" /\ rl["watcher"].pc # "called") =>
             (rl["watcher"].pc = "idle" /\ wpc = "select")]_vars
    /\ [][wpc = "reloading" =>
            /\ wpc' \in {"reloading", "select"}
            /\ wpc' = "select" => rl'["watcher"].pc = "idle"
            /\ hist'.reloads = hist.reloads
            /\ Len(eventQ') >= Len(eventQ)
            /\ \A f \in Paths : /\ pending'[f] = NoAge <=> pending[f] = NoAge
                                /\ pending'[f] = 0 => pending[f] = 0]_vars

\* The watcher's reload holds the write guard while the handle has been
\* dropped and the stamp of another path has become due: neither the shutdown
\* nor the sweep has run
C38_Witness ==
    /\ wpc = "reloading"
    /\ rl["watcher"].pc = "locked"
    /\ ~alive
    /\ \E f \in MdPaths : pending[f] # NoAge /\ pending[f] >= DEBOUNCE_MS


\* C34: whatever the palette's state before the key, after handle_key(Esc)
\* the palette is not visible, its filter is empty and its selection is 0,
\* and after a handle_key(Enter) that returned ExecuteCommand the palette is
\* not visible.
C34_EscAndEnterClose ==
    /\ (keyResult.called /\ keyResult.key.code = "Esc") =>
          /\ ~palette.visible
          /\ palette.filter = <<>>
          /\ palette.selected = 0
    /\ (keyResult.called /\ keyResult.key.code = "Enter" /\ keyResult.action.some) =>
          ~palette.visible

\* C39: after any sequence of load_commands, toggle and handle_key calls,
\* filtered holds distinct valid indices into commands, selected is below the
\* length of filtered when filtered is not empty and 0 when it is, and
\* selected_command() is Some exactly when filtered is not empty.
C39_FilteredAndSelectedInBounds ==
    /\ \A i \in 1..Len(palette.filtered) :
          /\ palette.filtered[i] >= 0
          /\ palette.filtered[i] < Len(palette.commands)
          /\ \A j \in 1..Len(palette.filtered) :
                i # j => palette.filtered[i] # palette.filtered[j]
    /\ palette.filtered # <<>> => palette.selected < Len(palette.filtered)
    /\ palette.filtered = <<>> => palette.selected = 0
    /\ selected_command(palette).some <=> palette.filtered # <<>>
    /\ selected_command(palette).some =>
          selected_command(palette).val
             = palette.commands[palette.filtered[palette.selected + 1] + 1].name

\* A key was handled with a filter typed in, the matches are listed by score
\* and not in the order of the commands, and the second of them is selected
C39_Witness ==
    /\ keyResult.called
    /\ palette.filter # <<>>
    /\ Len(palette.filtered) >= 2
    /\ Len(palette.filtered) < Len(palette.commands)
    /\ palette.filtered[1] > palette.filtered[2]
    /\ palette.selected = 1

\* C40: for every list of input items, the item replace_with_expanded_prompt
\* replaces is the Text item whose trimmed text detect_slash_command returns,
\* at most one item is replaced, the length and the order of the items are
\* kept, and when detect_slash_command returns None the items come back
\* unchanged.
C40_ReplacesTheDetectedItem ==
    slash.called =>
       LET replaced == { k \in 1..Len(slash.items) : slash.result[k] # slash.items[k] }
       IN  /\ Len(slash.result) = Len(slash.items)
           /\ Cardinality(replaced) <= 1
           /\ ~slash.detected.some => slash.result = slash.items
           /\ slash.detected.some =>
                 /\ replaced # {}
                 /\ \A k \in replaced :
                       /\ slash.items[k].kind = "Text"
                       /\ slash.result[k] = [kind |-> "Text", text |-> <<"p">>]
                       /\ trim(slash.items[k].text) = slash.detected.val
                       /\ \A h \in 1..(k - 1) :
                             slash.items[h].kind = "Text" =>
                                trim(slash.items[h].text) # slash.detected.val

============================================================================
